---- MODULE Spec2Model ----
(***************************************************************************)
(* Verification model of the conversational proxy:                         *)
(*   - DialogueStorage (src/src/storage.py): the durable table             *)
(*   - DialogueState / ContextStore (src/src/state.py): the bounded        *)
(*     in-memory window over the table                                     *)
(*   - AIClient (src/src/ai_client.py): retry loop and key rotation        *)
(*                                                                         *)
(* Text is modelled as a sequence of one-character strings so that the     *)
(* JSON encoding of the content column is computed, not assumed.           *)
(***************************************************************************)
EXTENDS Integers, Sequences, FiniteSets, TLC

(***************************************************************************)
(* Bounds                                                                  *)
(***************************************************************************)
\* capacity of one DialogueState (12 in production, scaled down)
max_messages == 2
\* most rows the table holds when the storage API is driven directly
MaxRows == 3
\* longest message list handed to replace_history directly
MaxReplace == 2
\* largest limit passed to load_history directly
MaxLimit == 3

\* most credentials an AIClient is configured with
MaxKeys == 3
\* most fragments one upstream stream delivers
MaxChunks == 2

\* config.CHUNK_BODY_LIMIT (3400 in production, scaled down): most characters
\* of one part of the final answer
CHUNK_BODY_LIMIT == 8
\* config.MIN_CODE_CHUNK_SIZE (500 in production, scaled down)
MIN_CODE_CHUNK_SIZE == 3

\* config.MAX_MESSAGE_LENGTH (4000 in production, scaled down)
MAX_MESSAGE_LENGTH == 12
\* most fragments the coordinator receives in one exchange
MaxFragments == 3
\* most platform calls that fail in one exchange
MaxFaults == 1
\* config.UPDATE_INTERVAL: 0.5 s, in tenths of a second
UPDATE_INTERVAL == 5

Users == {1, 2}
\* exchanges (inbound messages being handled)
Exchanges == {1, 2}
\* logical generate_reply / generate_reply_stream calls
Calls == {1, 2}

(***************************************************************************)
(* Python values that occur as message content: str | int | list.          *)
(* (int only arises as the result of json.loads.)                          *)
(***************************************************************************)
PyStr(s) == [t |-> "str", s |-> s]
PyInt(n) == [t |-> "int", n |-> n]
PyList(items) == [t |-> "list", items |-> items]

Quote == "\""
Digits == <<"0", "1", "2", "3", "4", "5", "6", "7", "8", "9">>
IsDigit(c) == \E k \in 1..10 : Digits[k] = c
DigitVal(c) == (CHOOSE k \in 1..10 : Digits[k] = c) - 1

(***************************************************************************)
(* json.dumps(value, ensure_ascii=False) on the modelled values: decimal   *)
(* integers, double-quoted strings (the modelled strings hold no character *)
(* that needs escaping), lists joined with ", ".                           *)
(***************************************************************************)
RECURSIVE IntToChars(_)
IntToChars(n) ==
    IF n < 10 THEN <<Digits[n + 1]>>
    ELSE IntToChars(n \div 10) \o <<Digits[(n % 10) + 1]>>

RECURSIVE JsonDumps(_)
RECURSIVE JsonDumpsItems(_)
JsonDumpsItems(items) ==
    IF Len(items) = 0 THEN <<>>
    ELSE IF Len(items) = 1 THEN JsonDumps(items[1])
    ELSE JsonDumps(items[1]) \o <<",", " ">> \o JsonDumpsItems(Tail(items))

JsonDumps(v) ==
    CASE v.t = "int" -> IntToChars(v.n)
      [] v.t = "str" -> <<Quote>> \o v.s \o <<Quote>>
      [] v.t = "list" -> <<"[">> \o JsonDumpsItems(v.items) \o <<"]">>

(***************************************************************************)
(* json.loads on text over the alphabet letters, digits, space, comma,     *)
(* brackets and double quote.  On that alphabet a JSON document is a       *)
(* number without leading zero, a quoted string or a list of documents,    *)
(* surrounded by optional blanks; everything else is a JSONDecodeError.    *)
(***************************************************************************)
ParseFail == [ok |-> FALSE]

RECURSIVE SkipWs(_, _)
SkipWs(s, i) ==
    IF i <= Len(s) /\ s[i] = " " THEN SkipWs(s, i + 1) ELSE i

RECURSIVE ScanDigits(_, _, _)
ScanDigits(s, i, acc) ==
    IF i <= Len(s) /\ IsDigit(s[i])
    THEN ScanDigits(s, i + 1, acc * 10 + DigitVal(s[i]))
    ELSE [ok |-> TRUE, val |-> PyInt(acc), next |-> i]

RECURSIVE ScanString(_, _, _)
ScanString(s, i, start) ==
    IF i > Len(s) THEN ParseFail
    ELSE IF s[i] = Quote
         THEN [ok |-> TRUE, val |-> PyStr(SubSeq(s, start, i - 1)), next |-> i + 1]
         ELSE ScanString(s, i + 1, start)

RECURSIVE ParseValue(_, _)
RECURSIVE ParseElems(_, _, _)
ParseElems(s, i, acc) ==
    LET r == ParseValue(s, i) IN
    IF ~r.ok THEN ParseFail
    ELSE LET k == SkipWs(s, r.next) IN
         IF k > Len(s) THEN ParseFail
         ELSE IF s[k] = "," THEN ParseElems(s, SkipWs(s, k + 1), Append(acc, r.val))
         ELSE IF s[k] = "]"
              THEN [ok |-> TRUE, val |-> PyList(Append(acc, r.val)), next |-> k + 1]
              ELSE ParseFail

ParseValue(s, i) ==
    IF i > Len(s) THEN ParseFail
    ELSE IF s[i] = "0" THEN [ok |-> TRUE, val |-> PyInt(0), next |-> i + 1]
    ELSE IF IsDigit(s[i]) THEN ScanDigits(s, i, 0)
    ELSE IF s[i] = Quote THEN ScanString(s, i + 1, i + 1)
    ELSE IF s[i] = "["
         THEN LET k == SkipWs(s, i + 1) IN
              IF k <= Len(s) /\ s[k] = "]"
              THEN [ok |-> TRUE, val |-> PyList(<<>>), next |-> k + 1]
              ELSE ParseElems(s, k, <<>>)
    ELSE ParseFail

JsonLoads(s) ==
    LET r == ParseValue(s, SkipWs(s, 1)) IN
    IF r.ok /\ SkipWs(s, r.next) > Len(s) THEN r ELSE ParseFail

\* storage.py:57 / 68-70: a str is stored as it is, anything else as JSON
EncodeContent(content) ==
    IF content.t = "str" THEN content.s ELSE JsonDumps(content)

\* storage.py:47-51: json.loads is tried on every stored text
DecodeContent(text) ==
    LET r == JsonLoads(text) IN
    IF r.ok THEN r.val ELSE PyStr(text)

(***************************************************************************)
(* Inputs                                                                  *)
(***************************************************************************)
TextHi == <<"h", "i">>
TextOne == <<"1">>

Message(role, content) == [role |-> role, content |-> content]
\* the turns fed to the store
Messages ==
    { Message("user", PyStr(TextHi)),
      Message("assistant", PyStr(TextOne)),
      Message("user", PyList(<<PyInt(1), PyStr(TextHi)>>)) }

\* what a user sends
UserContents == {PyStr(TextHi)}

RECURSIVE SeqsUpTo(_, _)
SeqsUpTo(S, n) ==
    IF n = 0 THEN {<<>>}
    ELSE LET shorter == SeqsUpTo(S, n - 1) IN
         shorter \cup {Append(q, x) : q \in {p \in shorter : Len(p) = n - 1}, x \in S}

LastN(s, n) ==
    IF Len(s) <= n THEN s ELSE SubSeq(s, Len(s) - n + 1, Len(s))

(***************************************************************************)
(* Text handling of src/src/formatters.py and src/src/bot.py.  A str is a  *)
(* sequence of one-character strings; positions are 1-based.               *)
(***************************************************************************)
\* the character U+0060, which a TLA+ string literal cannot hold
Backtick == "BACKTICK"
Fence == <<Backtick, Backtick, Backtick>>
LowerCase ==
    <<"a", "b", "c", "d", "e", "f", "g", "h", "i", "j", "k", "l", "m",
      "n", "o", "p", "q", "r", "s", "t", "u", "v", "w", "x", "y", "z">>
UpperCase ==
    <<"A", "B", "C", "D", "E", "F", "G", "H", "I", "J", "K", "L", "M",
      "N", "O", "P", "Q", "R", "S", "T", "U", "V", "W", "X", "Y", "Z">>
WordChars ==
    {LowerCase[k] : k \in 1..26} \cup {UpperCase[k] : k \in 1..26}
    \cup {Digits[k] : k \in 1..10} \cup {"_"}
\* \w over the characters that occur in modelled text
IsWord(c) == c \in WordChars
Whitespace == {" ", "\n", "\t"}
Newline == {"\n"}

Min(S) == CHOOSE m \in S : \A k \in S : m <= k
Max(S) == CHOOSE m \in S : \A k \in S : m >= k

\* text.startswith(lit, i - 1)
StartsAt(text, i, lit) ==
    /\ i >= 1
    /\ i + Len(lit) - 1 <= Len(text)
    /\ \A k \in 1..Len(lit) : text[i + k - 1] = lit[k]
\* the first position >= i that holds a character of chars, Len + 1 if none
NextOf(text, i, chars) ==
    LET hits == {j \in i..Len(text) : text[j] \in chars}
    IN IF hits = {} THEN Len(text) + 1 ELSE Min(hits)
\* text.find(lit, i - 1) + 1: the first position >= i where lit occurs, 0 if none
Find(text, lit, i) ==
    LET hits == {j \in i..(Len(text) - Len(lit) + 1) : text[j] = lit[1] /\ StartsAt(text, j, lit)}
    IN IF hits = {} THEN 0 ELSE Min(hits)

\* the first position >= i that holds a character of stops, Len + 1 if none
RECURSIVE SkipUntil(_, _, _)
SkipUntil(text, i, stops) ==
    IF i <= Len(text) /\ text[i] \notin stops THEN SkipUntil(text, i + 1, stops) ELSE i

\* the first position >= i that holds no character of the class, Len + 1 if none
RECURSIVE SkipWhile(_, _, _)
SkipWhile(text, i, class) ==
    IF i <= Len(text) /\ text[i] \in class THEN SkipWhile(text, i + 1, class) ELSE i

\* the last position <= i that holds no character of the class, 0 if none
RECURSIVE SkipBack(_, _, _)
SkipBack(text, i, class) ==
    IF i >= 1 /\ text[i] \in class THEN SkipBack(text, i - 1, class) ELSE i

\* str.replace(old, new): non-overlapping occurrences, left to right (old is not empty)
RECURSIVE ReplaceFrom(_, _, _, _)
ReplaceFrom(text, old, new, i) ==
    LET p == Find(text, old, i) IN
    IF p = 0 THEN SubSeq(text, i, Len(text))
    ELSE SubSeq(text, i, p - 1) \o new \o ReplaceFrom(text, old, new, p + Len(old))
Replace(text, old, new) == ReplaceFrom(text, old, new, 1)

\* str.strip(chars) / str.strip()
Strip(text, chars) ==
    SubSeq(text, SkipWhile(text, 1, chars), SkipBack(text, Len(text), chars))

(***************************************************************************)
(* CODE_BLOCK_RE = ```(\w+)?\s*(.*?)``` with DOTALL.  At a position that   *)
(* holds an opening fence the greedy word run and the greedy blank run are *)
(* taken whole (a closing fence cannot start inside them), then the lazy   *)
(* body ends at the first fence at or after the end of the blank run.      *)
(***************************************************************************)
NoMatch == [found |-> FALSE]
CodeBlockMatchAt(text, i) ==
    IF ~StartsAt(text, i, Fence) THEN NoMatch
    ELSE LET w == SkipWhile(text, i + 3, WordChars)
             q == SkipWhile(text, w, Whitespace)
             p == Find(text, Fence, q)
         IN IF p = 0 THEN NoMatch
            ELSE [found |-> TRUE, start |-> i, end |-> p + 2,
                  group0 |-> SubSeq(text, i, p + 2),
                  group1 |-> SubSeq(text, i + 3, w - 1),
                  group2 |-> SubSeq(text, q, p - 1)]

\* CODE_BLOCK_RE.finditer(text): the matches, scanning from position i; a
\* match starts at a backtick
RECURSIVE CodeBlocksFrom(_, _)
CodeBlocksFrom(text, i) ==
    LET j == NextOf(text, i, {Backtick}) IN
    IF j > Len(text) THEN <<>>
    ELSE LET m == CodeBlockMatchAt(text, j) IN
         IF m.found THEN <<m>> \o CodeBlocksFrom(text, m.end + 1)
         ELSE CodeBlocksFrom(text, j + 1)

CodeBlocks(text) == CodeBlocksFrom(text, 1)

\* the message _send_code_blocks builds for a match: ```{language}\n{code}\n```
\* with language = group(1).strip() and code = group(2).strip("\n")
CodeOf(m) == Strip(m.group2, Newline)
CodeMessage(m) ==
    LET language == Strip(m.group1, Whitespace)
        lang_prefix == IF language # <<>> THEN language \o <<"\n">> ELSE <<>>
    IN Fence \o lang_prefix \o CodeOf(m) \o <<"\n">> \o Fence

\* text_without_code: the text of every match removed (bot.py:276-278, 362-364)
RECURSIVE RemoveAll(_, _)
RemoveAll(text, matches) ==
    IF matches = <<>> THEN text
    ELSE RemoveAll(Replace(text, matches[1].group0, <<>>), Tail(matches))
TextWithoutCode(accumulated_text) == RemoveAll(accumulated_text, CodeBlocks(accumulated_text))

(***************************************************************************)
(* remove_markdown_stars (formatters.py:60-78)                             *)
(***************************************************************************)
\* "__PLACEHOLDER_CODE_" and "_UNIQUE__"
PlaceholderHead ==
    <<"_", "_", "P", "L", "A", "C", "E", "H", "O", "L", "D", "E", "R", "_", "C", "O", "D", "E", "_">>
PlaceholderTail == <<"_", "U", "N", "I", "Q", "U", "E", "_", "_">>
\* f"__PLACEHOLDER_CODE_{idx}_UNIQUE__"
PlaceholderCode(idx) == PlaceholderHead \o IntToChars(idx) \o PlaceholderTail

\* the matches of ```[\s\S]*?``` from position i: an opening fence and the
\* first fence after it
RECURSIVE FencedFrom(_, _)
FencedFrom(text, i) ==
    LET j == Find(text, Fence, i)
        p == IF j = 0 THEN 0 ELSE Find(text, Fence, j + 3)
    IN IF p = 0 THEN <<>>
       ELSE <<[start |-> j, end |-> p + 2, group0 |-> SubSeq(text, j, p + 2)]>>
            \o FencedFrom(text, p + 3)

\* code_block_pattern.sub(replace_code_block, text): match number k (from 0)
\* becomes PlaceholderCode(k); pos is the first position not yet copied
RECURSIVE SubPlaceholders(_, _, _, _)
SubPlaceholders(text, matches, k, pos) ==
    IF k >= Len(matches) THEN SubSeq(text, pos, Len(text))
    ELSE SubSeq(text, pos, matches[k + 1].start - 1) \o PlaceholderCode(k)
         \o SubPlaceholders(text, matches, k + 1, matches[k + 1].end + 1)

\* re.sub(d ([^c]+) d, r"\1", text) for a delimiter d made of the character c:
\* a match starts at a c; the greedy run of other characters must be
\* non-empty and be followed by d
RECURSIVE SubDelimited(_, _, _, _)
SubDelimited(text, d, c, i) ==
    LET j == NextOf(text, i, {c}) IN
    IF j > Len(text) THEN SubSeq(text, i, Len(text))
    ELSE LET r == SkipUntil(text, j + Len(d), {c}) IN
         IF StartsAt(text, j, d) /\ r > j + Len(d) /\ StartsAt(text, r, d)
         THEN SubSeq(text, i, j - 1) \o SubSeq(text, j + Len(d), r - 1)
              \o SubDelimited(text, d, c, r + Len(d))
         ELSE SubSeq(text, i, j) \o SubDelimited(text, d, c, j + 1)

\* the placeholders put back: text.replace(PlaceholderCode(idx), code_block)
RECURSIVE RestoreCode(_, _, _)
RestoreCode(text, code_blocks, idx) ==
    IF idx >= Len(code_blocks) THEN text
    ELSE RestoreCode(Replace(text, PlaceholderCode(idx), code_blocks[idx + 1].group0),
                     code_blocks, idx + 1)

remove_markdown_stars(text) ==
    LET code_blocks == FencedFrom(text, 1)
        t0 == SubPlaceholders(text, code_blocks, 0, 1)
        t1 == SubDelimited(t0, <<"*", "*">>, "*", 1)
        t2 == SubDelimited(t1, <<"*">>, "*", 1)
        t3 == SubDelimited(t2, <<"_", "_">>, "_", 1)
        t4 == SubDelimited(t3, <<"_">>, "_", 1)
    IN RestoreCode(t4, code_blocks, 0)

(***************************************************************************)
(* format_message (formatters.py:81-136) and what it calls.                *)
(* Modelled text holds none of the characters < > { } ; = ( / and no       *)
(* Cyrillic letter, so of the alternatives of the patterns below only      *)
(* those that such text can match are spelled out.                         *)
(***************************************************************************)
\* str.lower() of one character
UpperSet == {UpperCase[k] : k \in 1..26}
LowerMap == [c \in UpperSet |-> LowerCase[CHOOSE k \in 1..26 : UpperCase[k] = c]]
Lower(c) == IF c \in UpperSet THEN LowerMap[c] ELSE c
\* text.lower().startswith(lit, i - 1) for a lower-case lit
StartsAtLower(text, i, lit) ==
    /\ i >= 1
    /\ i + Len(lit) - 1 <= Len(text)
    /\ \A k \in 1..Len(lit) : Lower(text[i + k - 1]) = lit[k]

\* ^ with re.MULTILINE at position i
LineStart(text, i) == i = 1 \/ (i <= Len(text) + 1 /\ text[i - 1] = "\n")
\* $ with re.MULTILINE at position i
LineEnd(text, i) == i = Len(text) + 1 \/ (i <= Len(text) /\ text[i] = "\n")
\* \b at position i: exactly one of the characters before and at i is a word character
WordAt(text, i) == i >= 1 /\ i <= Len(text) /\ IsWord(text[i])
Boundary(text, i) == WordAt(text, i - 1) # WordAt(text, i)

\* re.sub(r"^#{1,6}\s+", "", text, flags=re.MULTILINE): at a line start, one to
\* six "#" followed by blanks; the blanks are taken greedily
RECURSIVE StripHeadings(_, _)
StripHeadings(text, i) ==
    LET j == NextOf(text, i, {"#"}) IN
    IF j > Len(text) THEN SubSeq(text, i, Len(text))
    ELSE LET h == SkipWhile(text, j, {"#"})
             e == SkipWhile(text, h, Whitespace)
         IN IF LineStart(text, j) /\ h - j <= 6 /\ e > h
            THEN SubSeq(text, i, j - 1) \o StripHeadings(text, e)
            ELSE SubSeq(text, i, j) \o StripHeadings(text, j + 1)

\* the Latin alternatives of (HTML|JavaScript|CSS|Код|Markup|Java|JS|Пример), lower case
Labels ==
    {<<"h", "t", "m", "l">>, <<"j", "a", "v", "a", "s", "c", "r", "i", "p", "t">>,
     <<"c", "s", "s">>, <<"m", "a", "r", "k", "u", "p">>, <<"j", "a", "v", "a">>, <<"j", "s">>}

\* the end of a match of ^\s*(label):\s*$ (IGNORECASE, MULTILINE) that starts
\* at i, as the position after its last character; 0 if there is none
LabelLineEnd(text, i) ==
    LET j == SkipWhile(text, i, Whitespace)
        labels == {l \in Labels : StartsAt(text, j + Len(l), <<":">>) /\ StartsAtLower(text, j, l)}
        after == {j + Len(w) + 1 : w \in labels}
    IN IF ~LineStart(text, i) THEN 0
       ELSE IF after = {} THEN 0
       ELSE LET k == Min(after)
                e == SkipWhile(text, k, Whitespace)
                ends == {p \in k..e : LineEnd(text, p)}
            IN IF ends = {} THEN 0 ELSE Max(ends)

\* re.sub of that pattern with "": a match starts at a line start and needs a
\* ":" after it; c is the first line start at or after i
RECURSIVE StripLabels(_, _)
StripLabels(text, i) ==
    LET c == IF LineStart(text, i) THEN i ELSE NextOf(text, i, Newline) + 1 IN
    IF c > Len(text) \/ NextOf(text, c, {":"}) > Len(text) THEN SubSeq(text, i, Len(text))
    ELSE LET e == LabelLineEnd(text, c) IN
         IF e # 0 THEN SubSeq(text, i, c - 1) \o StripLabels(text, e)
         ELSE SubSeq(text, i, c) \o StripLabels(text, c + 1)

\* f"__MD_SNIPPET_{n}__"
SnippetToken(n) ==
    <<"_", "_", "M", "D", "_", "S", "N", "I", "P", "P", "E", "T", "_">>
    \o IntToChars(n) \o <<"_", "_">>

\* escape_markdown_v2 (formatters.py:55-57)
Specials ==
    {"_", "*", "[", "]", "(", ")", "~", Backtick, ">", "#", "+", "-", "=", "|",
     "{", "}", ".", "!", "\\"}
RECURSIVE EscapeFrom(_, _)
EscapeFrom(text, i) ==
    LET j == NextOf(text, i, Specials) IN
    IF j > Len(text) THEN SubSeq(text, i, Len(text))
    ELSE SubSeq(text, i, j - 1) \o <<"\\", text[j]>> \o EscapeFrom(text, j + 1)
escape_markdown_v2(text) == EscapeFrom(text, 1)

\* block_replacer: the snippet a CODE_BLOCK_RE match is replaced by, <<>> when
\* the match is left in place (blank code)
BlockSnippet(m) ==
    LET language == Strip(m.group1, Whitespace)
        code == CodeOf(m)
    IN IF Strip(code, Whitespace) = <<>> THEN <<>>
       ELSE Fence \o language \o <<"\n">> \o code \o <<"\n">> \o Fence

\* CODE_BLOCK_RE.sub(block_replacer, text): r.text is the text copied so far,
\* r.placeholders the snippets registered so far
RECURSIVE SubBlocks(_, _, _, _)
SubBlocks(text, matches, pos, r) ==
    IF matches = <<>>
    THEN [r EXCEPT !.text = @ \o SubSeq(text, pos, Len(text))]
    ELSE LET m == matches[1]
             snippet == BlockSnippet(m)
             before == SubSeq(text, pos, m.start - 1)
         IN SubBlocks(text, Tail(matches), m.end + 1,
                IF snippet = <<>>
                THEN [r EXCEPT !.text = @ \o before \o m.group0]
                ELSE [text |-> r.text \o before \o SnippetToken(Len(r.placeholders)),
                      placeholders |-> Append(r.placeholders, snippet)])

\* re.sub(r"__PLACEHOLDER_CODE_\d+_UNIQUE__", "", text)
RECURSIVE DropPlaceholderCode(_, _)
DropPlaceholderCode(text, i) ==
    LET j == Find(text, PlaceholderHead, i) IN
    IF j = 0 THEN SubSeq(text, i, Len(text))
    ELSE LET d == SkipWhile(text, j + 19, {Digits[k] : k \in 1..10}) IN
         IF d > j + 19 /\ StartsAt(text, d, PlaceholderTail)
         THEN SubSeq(text, i, j - 1) \o DropPlaceholderCode(text, d + 9)
         ELSE SubSeq(text, i, j) \o DropPlaceholderCode(text, j + 1)

\* re.sub(r"_PLACEHOLDER[^_]*_", "", text)
RECURSIVE DropPlaceholderRest(_, _)
DropPlaceholderRest(text, i) ==
    LET j == Find(text, SubSeq(PlaceholderHead, 2, 13), i) IN
    IF j = 0 THEN SubSeq(text, i, Len(text))
    ELSE LET u == SkipUntil(text, j + 12, {"_"}) IN
         IF u <= Len(text)
         THEN SubSeq(text, i, j - 1) \o DropPlaceholderRest(text, u + 1)
         ELSE SubSeq(text, i, j) \o DropPlaceholderRest(text, j + 1)

\* INLINE_CODE_RE.sub(inline_replacer, text): `([^`]+)` becomes a snippet token
RECURSIVE SubInline(_, _, _)
SubInline(text, i, r) ==
    LET j == NextOf(text, i, {Backtick}) IN
    IF j > Len(text) THEN [r EXCEPT !.text = @ \o SubSeq(text, i, Len(text))]
    ELSE LET e == SkipUntil(text, j + 1, {Backtick}) IN
         IF e > j + 1 /\ e <= Len(text)
         THEN SubInline(text, e + 1,
                  [text |-> r.text \o SubSeq(text, i, j - 1) \o SnippetToken(Len(r.placeholders)),
                   placeholders |-> Append(r.placeholders, SubSeq(text, j, e))])
         ELSE SubInline(text, j + 1, [r EXCEPT !.text = @ \o SubSeq(text, i, j)])

\* for token, snippet in placeholders: escaped_text.replace(escaped_token, snippet)
RECURSIVE RestoreSnippets(_, _, _)
RestoreSnippets(text, placeholders, n) ==
    IF n >= Len(placeholders) THEN text
    ELSE RestoreSnippets(Replace(text, escape_markdown_v2(SnippetToken(n)), placeholders[n + 1]),
                         placeholders, n + 1)

\* pattern.search(cleaned) for the "javascript" entry: \bconsole\. or document\.
JsSearch(cleaned) ==
    \E i \in 1..Len(cleaned) :
        \/ /\ StartsAtLower(cleaned, i, <<"c", "o", "n", "s", "o", "l", "e", ".">>)
           /\ Boundary(cleaned, i)
        \/ StartsAtLower(cleaned, i, <<"d", "o", "c", "u", "m", "e", "n", "t", ".">>)

\* pattern.search(cleaned) for the "python" entry: \bimport\s+\w+
PythonSearch(cleaned) ==
    \E i \in 1..Len(cleaned) :
        /\ StartsAtLower(cleaned, i, <<"i", "m", "p", "o", "r", "t">>)
        /\ Boundary(cleaned, i)
        /\ LET e == SkipWhile(cleaned, i + 6, Whitespace) IN e > i + 6 /\ WordAt(cleaned, e)

\* ^\s*(?:word|...)\b at a line start i
KeywordAt(text, i, words) ==
    LET j == SkipWhile(text, i, Whitespace) IN
    \E w \in words : StartsAt(text, j, w) /\ Boundary(text, j + Len(w))

\* pattern.search(cleaned) for the "bash" entry: ^\s*(?:cd|ls|mkdir|rm|echo)\b
BashWords ==
    {<<"c", "d">>, <<"l", "s">>, <<"m", "k", "d", "i", "r">>, <<"r", "m">>, <<"e", "c", "h", "o">>}
BashSearch(cleaned) ==
    \E i \in 1..Len(cleaned) : LineStart(cleaned, i) /\ KeywordAt(cleaned, i, BashWords)

\* str.splitlines() of text that holds no line break but "\n"
RECURSIVE SplitLinesFrom(_, _)
SplitLinesFrom(text, i) ==
    IF i > Len(text) THEN <<>>
    ELSE LET p == NextOf(text, i, Newline) IN
         <<SubSeq(text, i, p - 1)>> \o SplitLinesFrom(text, p + 1)
SplitLines(text) == SplitLinesFrom(text, 1)

\* re.search(r"[<>{};=]|^\s*(?:if|for|while|class|def|return)\b", line)
CodeWords ==
    {<<"i", "f">>, <<"f", "o", "r">>, <<"w", "h", "i", "l", "e">>, <<"c", "l", "a", "s", "s">>,
     <<"d", "e", "f">>, <<"r", "e", "t", "u", "r", "n">>}
CodeLike(line) == KeywordAt(line, 1, CodeWords)

\* detect_code_language (formatters.py:31-52): <<looks_like_code, language>>,
\* language "" standing for None
detect_code_language(text) ==
    LET cleaned == Strip(text, Whitespace)
        lines == SelectSeq(SplitLines(cleaned), LAMBDA line : Strip(line, Whitespace) # <<>>)
        code_like_lines == Len(SelectSeq(lines, CodeLike))
    IN IF Len(cleaned) < 20 THEN <<FALSE, "">>
       ELSE IF JsSearch(cleaned) THEN <<TRUE, "javascript">>
       ELSE IF PythonSearch(cleaned) THEN <<TRUE, "python">>
       ELSE IF BashSearch(cleaned) THEN <<TRUE, "bash">>
       ELSE IF Len(lines) < 3 THEN <<FALSE, "">>
       ELSE IF code_like_lines >= Max({3, Len(lines) \div 2}) THEN <<TRUE, "">>
       ELSE <<FALSE, "">>

LanguageName(language) ==
    CASE language = "javascript" -> <<"j", "a", "v", "a", "s", "c", "r", "i", "p", "t">>
      [] language = "python" -> <<"p", "y", "t", "h", "o", "n">>
      [] language = "bash" -> <<"b", "a", "s", "h">>
      [] OTHER -> <<>>

format_message(text) ==
    LET t1 == StripHeadings(text, 1)
        t2 == StripLabels(t1, 1)
        detection_candidate == Strip(t2, Whitespace)
        blocks == SubBlocks(t2, CodeBlocks(t2), 1, [text |-> <<>>, placeholders |-> <<>>])
        t3 == DropPlaceholderCode(blocks.text, 1)
        t4 == DropPlaceholderRest(t3, 1)
        inline == SubInline(t4, 1, [text |-> <<>>, placeholders |-> blocks.placeholders])
        escaped_text == RestoreSnippets(escape_markdown_v2(inline.text), inline.placeholders, 0)
        detected == detect_code_language(detection_candidate)
    IN IF inline.placeholders = <<>> /\ detected[1]
       THEN Fence \o LanguageName(detected[2]) \o <<"\n">>
            \o Strip(detection_candidate, Newline) \o <<"\n">> \o Fence
       ELSE escaped_text

(***************************************************************************)
(* split_plain_text and split_formatted_text (formatters.py:146-181)       *)
(***************************************************************************)
\* text.rfind("\n", start - 1, end - 1) + 1 with 1-based start and exclusive end
RFindNewline(text, start, end) ==
    LET hits == {p \in start..(end - 1) : text[p] = "\n"}
    IN IF hits = {} THEN 0 ELSE Max(hits)

\* the while loop of split_plain_text from position start (1-based)
RECURSIVE PlainParts(_, _, _)
PlainParts(text, limit, start) ==
    IF start > Len(text) THEN <<>>
    ELSE LET e0 == IF Len(text) + 1 < start + limit THEN Len(text) + 1 ELSE start + limit
             newline == IF e0 <= Len(text) THEN RFindNewline(text, start, e0) ELSE 0
             end == IF e0 <= Len(text) /\ newline > start THEN newline + 1 ELSE e0
         IN <<SubSeq(text, start, end - 1)>> \o PlainParts(text, limit, end)

StripNewlines(parts) ==
    LET stripped == [k \in 1..Len(parts) |-> Strip(parts[k], Newline)]
    IN SelectSeq(stripped, LAMBDA part : part # <<>>)

split_plain_text(text, limit) ==
    IF Len(text) <= limit THEN <<text>>
    ELSE StripNewlines(PlainParts(text, limit, 1))

\* text.endswith(lit)
EndsWith(text, lit) ==
    Len(text) >= Len(lit) /\ SubSeq(text, Len(text) - Len(lit) + 1, Len(text)) = lit

\* variant: the text is not stripped of its outer newlines
split_formatted_text_NoStrip(raw, limit) ==
    LET text == raw
        newline_idx == Find(text, <<"\n">>, 1)
        header == SubSeq(text, 1, newline_idx)
        rest == SubSeq(text, newline_idx + 1, Len(text))
        body == IF EndsWith(rest, <<"\n">> \o Fence) THEN SubSeq(rest, 1, Len(rest) - 4)
                ELSE IF EndsWith(rest, Fence) THEN SubSeq(rest, 1, Len(rest) - 3)
                ELSE rest
        chunk_size == Max({MIN_CODE_CHUNK_SIZE, limit - Len(header) - 4})
        body_parts == split_plain_text(body, chunk_size)
    IN IF Len(text) <= limit THEN <<text>>
       ELSE IF StartsAt(text, 1, Fence) /\ newline_idx # 0
            THEN [k \in 1..Len(body_parts) |->
                     header \o Strip(body_parts[k], Whitespace) \o <<"\n">> \o Fence]
            ELSE split_plain_text(text, limit)

split_formatted_text(raw, limit) ==
    LET text == Strip(raw, Newline)
        newline_idx == Find(text, <<"\n">>, 1)
        header == SubSeq(text, 1, newline_idx)
        rest == SubSeq(text, newline_idx + 1, Len(text))
        body == IF EndsWith(rest, <<"\n">> \o Fence) THEN SubSeq(rest, 1, Len(rest) - 4)
                ELSE IF EndsWith(rest, Fence) THEN SubSeq(rest, 1, Len(rest) - 3)
                ELSE rest
        chunk_size == Max({MIN_CODE_CHUNK_SIZE, limit - Len(header) - 4})
        body_parts == split_plain_text(body, chunk_size)
    IN IF Len(text) <= limit THEN <<text>>
       ELSE IF StartsAt(text, 1, Fence) /\ newline_idx # 0
            THEN [k \in 1..Len(body_parts) |->
                     header \o Strip(body_parts[k], Whitespace) \o <<"\n">> \o Fence]
            ELSE split_plain_text(text, limit)

VARIABLES
    db,        \* table dialogue_messages: rows in id order
    store,     \* ContextStore._store: user_id -> DialogueState.history
    loaded,    \* value returned by the last direct load_history call
    lastOp,    \* the operation that produced this state
    recent,    \* per user: messages appended since the state was created or reset
    held,      \* per user: history the store held after its last append or reset
    written,   \* per user: messages written through the storage API
    _max_messages  \* ContextStore._max_messages

storeVars == <<db, store, loaded, lastOp, recent, held, written, _max_messages>>

VARIABLES
    api_keys,          \* AIClient._api_keys: the number of keys, key i is index i
    current_key_idx,   \* AIClient._current_key_idx (self._client is bound to it)
    upstream,          \* how the completion API answers requests made with each key
    calls              \* per logical call: the locals of the coroutine and its position

clientVars == <<api_keys, current_key_idx, upstream, calls>>

VARIABLES
    probe,             \* the argument handed to a pure function and what it returned
    bot,               \* per exchange: the locals of on_message and its position
    now                \* time.time(), in tenths of a second

auxVars == <<probe, bot, now>>

\* the locals of on_message before a message arrives
IdleExchange ==
    [pc |-> "idle", user_id |-> 0,
     accumulated_text |-> <<>>, last_update_time |-> 0, chunk_count |-> 0,
     pending_update |-> FALSE, sent_code_blocks |-> {}, safe_reply |-> <<>>,
     chunks |-> <<>>,
     display |-> [text |-> <<>>, parse_mode |-> "None"],  \* what the status message shows
     log |-> <<>>,        \* every platform call, upstream request and store append, in order
     lengths |-> <<>>,    \* len(accumulated_text) after each fragment
     current_time |-> 0,  \* time.time() as read for the last fragment
     faults |-> 0,        \* platform calls that raised
     escaped |-> "none"]  \* the exception that left on_message

\* held[u] before any append or reset of u
None == [known |-> FALSE, history |-> <<>>]
Held(history) == [known |-> TRUE, history |-> history]
\* lastOp: operation, its user, whether the user's state was absent from the
\* dict when it started, the limit of a load, the user's row count before it
NoOp == [op |-> "init", user_id |-> 0, fresh |-> FALSE, limit |-> 0, rowsBefore |-> 0]
NoWrite == [by |-> "none", msgs |-> <<>>]

(***************************************************************************)
(* DialogueStorage                                                         *)
(***************************************************************************)
Row(u, role, text) == [user_id |-> u, role |-> role, content |-> text]

UserRows(table, u) == SelectSeq(table, LAMBDA r : r.user_id = u)

\* variant: the DELETE has lost its WHERE clause
DeleteUser_All(table, u) == <<>>

\* DELETE FROM dialogue_messages WHERE user_id = ?
DeleteUser(table, u) == SelectSeq(table, LAMBDA r : r.user_id # u)

\* SELECT ... WHERE user_id = ? ORDER BY id DESC LIMIT ?, then reversed and decoded
load_history(table, u, limit) ==
    LET rows == LastN(UserRows(table, u), limit) IN
    [i \in 1..Len(rows) |-> Message(rows[i].role, DecodeContent(rows[i].content))]

storage_append(table, u, role, content) ==
    Append(table, Row(u, role, EncodeContent(content)))

replace_history(table, u, messages) ==
    DeleteUser(table, u)
        \o [i \in 1..Len(messages) |-> Row(u, messages[i].role, EncodeContent(messages[i].content))]

reset_user(table, u) == DeleteUser(table, u)

Op(name, u) ==
    [op |-> name, user_id |-> u, fresh |-> FALSE, limit |-> 0,
     rowsBefore |-> IF u \in Users THEN Len(UserRows(db, u)) ELSE 0]

(***************************************************************************)
(* DialogueState                                                           *)
(***************************************************************************)
\* variant: pop() instead of popleft()
RECURSIVE Evict_PopRight(_)
Evict_PopRight(history) ==
    IF Len(history) > _max_messages
    THEN Evict_PopRight(SubSeq(history, 1, Len(history) - 1))
    ELSE history

RECURSIVE Evict(_)
Evict(history) ==
    IF Len(history) > _max_messages THEN Evict(Tail(history)) ELSE history

\* variant: the eviction loop is missing
DialogueState_append_NoEvict(history, role, content) ==
    Append(history, Message(role, content))

DialogueState_append(history, role, content) ==
    Evict(Append(history, Message(role, content)))

(***************************************************************************)
(* ContextStore                                                            *)
(***************************************************************************)
Cached(u) == u \in DOMAIN store

\* ContextStore.get: the history of the state it returns, and the dict afterwards
LoadState(u) ==
    LET history == load_history(db, u, _max_messages) IN
    IF _max_messages = 0 THEN history ELSE LastN(history, _max_messages)

StoreAfterGet(u) ==
    IF Cached(u) THEN store ELSE [v \in DOMAIN store \cup {u} |-> IF v = u THEN LoadState(u) ELSE store[v]]

Get(u) ==
    /\ store' = StoreAfterGet(u)
    /\ lastOp' = [Op("get", u) EXCEPT !.fresh = ~Cached(u)]
    /\ UNCHANGED <<_max_messages, db, loaded, recent, held, written, clientVars, auxVars>>

\* most appends followed per user between two resets / restarts
MaxAppends == _max_messages + 1

\* ContextStore.append: what it does to the store and the table
StoreAppend(u, role, content) ==
    /\ Len(recent[u]) < MaxAppends
    /\ LET s1 == StoreAfterGet(u)
           history == DialogueState_append(s1[u], role, content)
       IN /\ store' = [s1 EXCEPT ![u] = history]
          /\ db' = replace_history(db, u, history)
          /\ held' = [held EXCEPT ![u] = Held(history)]
    /\ recent' = [recent EXCEPT ![u] = Append(@, Message(role, content))]
    /\ lastOp' = Op("append", u)
    /\ UNCHANGED <<_max_messages, loaded, written>>

ContextAppend(u, role, content) ==
    /\ StoreAppend(u, role, content)
    /\ UNCHANGED <<clientVars, auxVars>>

\* variant: reset returns early for a user that is not in the dict
ContextReset_CachedOnly(u) ==
    /\ store' = IF Cached(u) THEN [store EXCEPT ![u] = <<>>] ELSE store
    /\ db' = IF Cached(u) THEN reset_user(db, u) ELSE db
    /\ recent' = [recent EXCEPT ![u] = <<>>]
    /\ held' = [held EXCEPT ![u] = Held(<<>>)]
    /\ lastOp' = [Op("reset", u) EXCEPT !.fresh = ~Cached(u)]
    /\ UNCHANGED <<_max_messages, loaded, written, clientVars, auxVars>>

ContextReset(u) ==
    /\ store' = IF Cached(u) THEN [store EXCEPT ![u] = <<>>] ELSE store
    /\ db' = reset_user(db, u)
    /\ recent' = [recent EXCEPT ![u] = <<>>]
    /\ held' = [held EXCEPT ![u] = Held(<<>>)]
    /\ lastOp' = [Op("reset", u) EXCEPT !.fresh = ~Cached(u)]
    /\ UNCHANGED <<_max_messages, loaded, written, clientVars, auxVars>>

\* the process is restarted: a new ContextStore over the same database file
Restart ==
    /\ store' = <<>>
    /\ recent' = [u \in Users |-> <<>>]
    /\ lastOp' = Op("restart", 0)
    /\ UNCHANGED <<_max_messages, db, loaded, held, written, clientVars, auxVars>>

Next ==
    \/ \E u \in Users : Get(u)
    \/ \E u \in Users, m \in Messages : ContextAppend(u, m.role, m.content)
    \/ \E u \in Users : ContextReset(u)
    \/ Restart

(***************************************************************************)
(* AIClient                                                                *)
(***************************************************************************)
CHAT_ROLES == {"user", "assistant", "system"}
StopAfterAttempt == 3

\* exceptions: the class, the status_code attribute (0: none) and whether the
\* message text contains "too many"
Exc(cls, status, too_many) ==
    [kind |-> "exc", cls |-> cls, status |-> status, too_many |-> too_many]
RateLimitExc == Exc("RateLimitError", 429, TRUE)
\* the exceptions the upstream is made to raise
Errors ==
    { RateLimitExc,
      Exc("Exception", 429, FALSE),
      Exc("BadRequestError", 400, TRUE),
      Exc("BadRequestError", 400, FALSE),
      Exc("Exception", 0, FALSE) }
ValueError == [kind |-> "exc", cls |-> "ValueError", status |-> 0, too_many |-> FALSE]
\* completion.choices[0].message.content of the answer obtained with key k
Reply(k) == [kind |-> "reply", key |-> k]
StreamDone == [kind |-> "stream_end"]
NoResult == [kind |-> "none"]
\* delta.content of the fragments of a stream ("" is skipped)
Deltas == {"", "x", "y"}

\* every exception shape _should_rotate_key is probed with
ExcClasses == {"RateLimitError", "BadRequestError", "APIStatusError", "APITimeoutError", "Exception"}
ExcStatuses == {0, 400, 401, 429, 500, 503}
AllExcs == {Exc(cls, st, tm) : cls \in ExcClasses, st \in ExcStatuses, tm \in BOOLEAN}
NoProbe == [exc |-> RateLimitExc, verdict |-> "pending"]

_should_rotate_key(exc) ==
    IF exc.cls = "RateLimitError" THEN TRUE
    ELSE IF exc.cls = "BadRequestError" /\ exc.status \in {400, 429} THEN exc.too_many
    ELSE IF exc.status \in {400, 429} THEN exc.too_many \/ exc.status = 429
    ELSE FALSE

\* _rotate_key: whether it rotated and the index afterwards
_rotate_key(idx) ==
    IF api_keys <= 1 THEN [rotated |-> FALSE, idx |-> idx]
    ELSE [rotated |-> TRUE, idx |-> (idx + 1) % api_keys]

\* variant: only the first message is validated
NormalizeOk_FirstOnly(roles) == Len(roles) = 0 \/ roles[1] \in CHAT_ROLES

\* _normalize_messages raises ValueError on a role outside CHAT_ROLES
NormalizeOk(roles) == \A i \in 1..Len(roles) : roles[i] \in CHAT_ROLES

IdleCall ==
    [pc |-> "idle", mode |-> "none", attempt |-> 0, initial_key_idx |-> 0,
     keys_rotated |-> 0, key_used |-> 0, requests |-> 0, failures |-> 0,
     chunks |-> 0, last_exc |-> NoResult, result |-> NoResult, yielded |-> <<>>,
     keys_tried |-> <<>>,
     roles_ok |-> TRUE,      \* whether every role handed in was a chat role
     key_at_call |-> 0,      \* the active key index when the call was made
     stream_flags |-> <<>>,  \* the stream= argument of every request issued
     fragments |-> <<>>]     \* delta.content of the chunks of the current stream

\* sequential use: every call is awaited before the next one starts (slot 1)
NoOtherInFlight(c) == c = 1 /\ \A d \in Calls \ {c} : calls[d].pc = "idle"

\* generate_reply / generate_reply_stream up to the retry loop
\* (ai_client.py:81-86, 139-144)
CallStart(c, mode, roles) ==
    /\ calls[c].pc = "idle"
    /\ calls' = [calls EXCEPT ![c] =
          LET started == [IdleCall EXCEPT
                            !.mode = mode,
                            !.key_at_call = current_key_idx,
                            !.roles_ok = \A i \in 1..Len(roles) : roles[i] \in CHAT_ROLES]
          IN IF NormalizeOk(roles)
             THEN [started EXCEPT !.pc = "attempt", !.attempt = 1,
                                  !.initial_key_idx = current_key_idx]
             ELSE [started EXCEPT !.pc = "raised", !.result = ValueError]]
    /\ UNCHANGED <<api_keys, current_key_idx, upstream, storeVars, auxVars>>

\* variant: the client object is fetched once, before the retry loop
Request_StaleClient(c) ==
    /\ calls[c].pc = "attempt"
    /\ calls' = [calls EXCEPT ![c].pc = "waiting",
                              ![c].key_used = calls[c].initial_key_idx,
                              ![c].requests = @ + 1,
                              ![c].chunks = 0,
                              ![c].fragments = <<>>,
                              ![c].stream_flags = Append(@, calls[c].mode = "stream"),
                              ![c].keys_tried = Append(@, calls[c].initial_key_idx)]
    /\ UNCHANGED <<api_keys, current_key_idx, upstream, storeVars, auxVars>>

\* await self._client.chat.completions.create(...): the request leaves with
\* the key the client is bound to at that moment
Request(c) ==
    /\ calls[c].pc = "attempt"
    /\ calls' = [calls EXCEPT ![c].pc = "waiting",
                              ![c].key_used = current_key_idx,
                              ![c].requests = @ + 1,
                              ![c].chunks = 0,
                              ![c].fragments = <<>>,
                              ![c].stream_flags = Append(@, calls[c].mode = "stream"),
                              ![c].keys_tried = Append(@, current_key_idx)]
    /\ UNCHANGED <<api_keys, current_key_idx, upstream, storeVars, auxVars>>

MayFail(k, exc) ==
    \/ upstream[k] = "flaky"
    \/ upstream[k] = "rate_limit" /\ exc = RateLimitExc
MaySucceed(k) == upstream[k] \in {"ok", "flaky"}

\* the request succeeds: generate_reply returns the content, the streaming
\* variant starts to iterate the stream
Succeed(c) ==
    /\ calls[c].pc = "waiting"
    /\ MaySucceed(calls[c].key_used)
    /\ calls' = [calls EXCEPT ![c] =
          IF calls[c].mode = "reply"
          THEN [@ EXCEPT !.pc = "returned", !.result = Reply(calls[c].key_used)]
          ELSE [@ EXCEPT !.pc = "streaming"]]
    /\ UNCHANGED <<api_keys, current_key_idx, upstream, storeVars, auxVars>>

\* variant: the emptiness test of delta.content is missing
StreamChunk_NoSkip(c, delta) ==
    /\ calls[c].pc = "streaming"
    /\ calls[c].chunks < MaxChunks
    /\ calls' = [calls EXCEPT ![c].chunks = @ + 1,
                              ![c].fragments = Append(@, delta),
                              ![c].yielded = Append(@, delta)]
    /\ UNCHANGED <<api_keys, current_key_idx, upstream, storeVars, auxVars>>

\* async for chunk in stream: a non-empty delta is yielded to the consumer
StreamChunk(c, delta) ==
    /\ calls[c].pc = "streaming"
    /\ calls[c].chunks < MaxChunks
    /\ calls' = [calls EXCEPT ![c].chunks = @ + 1,
                              ![c].fragments = Append(@, delta),
                              ![c].yielded = IF delta = "" THEN @ ELSE Append(@, delta)]
    /\ UNCHANGED <<api_keys, current_key_idx, upstream, storeVars, auxVars>>

\* the stream is exhausted: return
StreamEnd(c) ==
    /\ calls[c].pc = "streaming"
    /\ calls' = [calls EXCEPT ![c].pc = "returned", ![c].result = StreamDone]
    /\ UNCHANGED <<api_keys, current_key_idx, upstream, storeVars, auxVars>>

\* variant: the key is rotated on every exception
AfterExcept_AnyError(c, exc) ==
    LET k == calls[c].keys_rotated
        r == _rotate_key(current_key_idx)
    IN IF k < api_keys /\ r.rotated
       THEN [idx |-> r.idx,
             keys_rotated |-> IF r.idx = calls[c].initial_key_idx /\ k + 1 > 0
                              THEN api_keys ELSE k + 1]
       ELSE [idx |-> current_key_idx, keys_rotated |-> k]

\* the except block (ai_client.py:104-129, 169-194): key index and
\* keys_rotated after it
AfterExcept(c, exc) ==
    LET k == calls[c].keys_rotated
        r == _rotate_key(current_key_idx)
    IN IF _should_rotate_key(exc) /\ k < api_keys /\ r.rotated
       THEN [idx |-> r.idx,
             keys_rotated |-> IF r.idx = calls[c].initial_key_idx /\ k + 1 > 0
                              THEN api_keys ELSE k + 1]
       ELSE [idx |-> current_key_idx, keys_rotated |-> k]

\* variant: retry=retry_if_exception_type(RateLimitError), other exceptions
\* leave the loop at once
Fail_RetryRateLimitOnly(c, exc) ==
    /\ calls[c].pc \in {"waiting", "streaming"}
    /\ MayFail(calls[c].key_used, exc)
    /\ LET a == AfterExcept(c, exc)
           stop == calls[c].attempt >= StopAfterAttempt \/ exc.cls # "RateLimitError"
       IN
       /\ current_key_idx' = a.idx
       /\ calls' = [calls EXCEPT ![c] =
             [@ EXCEPT !.keys_rotated = a.keys_rotated,
                       !.failures = @ + 1,
                       !.last_exc = exc,
                       !.pc = IF stop THEN "raised" ELSE "backoff",
                       !.result = IF stop THEN exc ELSE @]]
    /\ UNCHANGED <<api_keys, upstream, storeVars, auxVars>>

\* create() or the iteration of the stream raises: the except block runs, the
\* exception is re-raised into tenacity, which sleeps before the next attempt
\* or, after attempt StopAfterAttempt, re-raises it to the caller
Fail(c, exc) ==
    /\ calls[c].pc \in {"waiting", "streaming"}
    /\ MayFail(calls[c].key_used, exc)
    /\ LET a == AfterExcept(c, exc) IN
       /\ current_key_idx' = a.idx
       /\ calls' = [calls EXCEPT ![c] =
             [@ EXCEPT !.keys_rotated = a.keys_rotated,
                       !.failures = @ + 1,
                       !.last_exc = exc,
                       !.pc = IF calls[c].attempt >= StopAfterAttempt THEN "raised" ELSE "backoff",
                       !.result = IF calls[c].attempt >= StopAfterAttempt THEN exc ELSE @]]
    /\ UNCHANGED <<api_keys, upstream, storeVars, auxVars>>

\* the back-off sleep is over: next attempt
Retry(c) ==
    /\ calls[c].pc = "backoff"
    /\ calls' = [calls EXCEPT ![c].pc = "attempt", ![c].attempt = @ + 1]
    /\ UNCHANGED <<api_keys, current_key_idx, upstream, storeVars, auxVars>>

\* the caller has consumed the outcome; the coroutine object is gone
CallEnd(c) ==
    /\ calls[c].pc \in {"returned", "raised"}
    /\ calls' = [calls EXCEPT ![c] = IdleCall]
    /\ UNCHANGED <<api_keys, current_key_idx, upstream, storeVars, auxVars>>

\* an empty database file, no state cached; AIClient.__init__ over any key
\* list, against any upstream
InitClient ==
    /\ db = <<>>
    /\ store = <<>>
    /\ loaded = <<>>
    /\ lastOp = NoOp
    /\ recent = [u \in Users |-> <<>>]
    /\ held = [u \in Users |-> None]
    /\ written = [u \in Users |-> NoWrite]
    /\ _max_messages = max_messages
    /\ api_keys \in 1..MaxKeys
    /\ current_key_idx = 0
    /\ upstream \in [0..(api_keys - 1) -> {"ok", "rate_limit", "flaky"}]
    /\ calls = [c \in Calls |-> IdleCall]
    /\ probe = NoProbe
    /\ bot = [ex \in Exchanges |-> IdleExchange]
    /\ now = 2 * UPDATE_INTERVAL

vars == <<storeVars, clientVars, auxVars>>

\* an empty database file, no state cached, a client with one key
Init ==
    /\ db = <<>>
    /\ store = <<>>
    /\ loaded = <<>>
    /\ lastOp = NoOp
    /\ recent = [u \in Users |-> <<>>]
    /\ held = [u \in Users |-> None]
    /\ written = [u \in Users |-> NoWrite]
    /\ _max_messages = max_messages
    /\ api_keys = 1
    /\ current_key_idx = 0
    /\ upstream = [k \in {0} |-> "ok"]
    /\ calls = [c \in Calls |-> IdleCall]
    /\ probe = NoProbe
    /\ bot = [ex \in Exchanges |-> IdleExchange]
    /\ now = 2 * UPDATE_INTERVAL

Spec == Init /\ [][Next]_vars

\* calls made one after the other
NextClient ==
    \/ \E c \in Calls, mode \in {"reply", "stream"},
          roles \in SeqsUpTo(CHAT_ROLES \cup {"tool"}, 2) :
            NoOtherInFlight(c) /\ CallStart(c, mode, roles)
    \/ \E c \in Calls : Request(c)
    \/ \E c \in Calls : Succeed(c)
    \/ \E c \in Calls, delta \in Deltas : StreamChunk(c, delta)
    \/ \E c \in Calls : StreamEnd(c)
    \/ \E c \in Calls, exc \in Errors : Fail(c, exc)
    \/ \E c \in Calls : Retry(c)
    \/ \E c \in Calls : CallEnd(c)

SpecClient == InitClient /\ [][NextClient]_vars

(***************************************************************************)
(* Two calls of generate_reply awaited together on one client whose first  *)
(* key is rate limited and whose second key works                          *)
(***************************************************************************)
InitRace ==
    /\ db = <<>>
    /\ store = <<>>
    /\ loaded = <<>>
    /\ lastOp = NoOp
    /\ recent = [u \in Users |-> <<>>]
    /\ held = [u \in Users |-> None]
    /\ written = [u \in Users |-> NoWrite]
    /\ _max_messages = max_messages
    /\ api_keys = 2
    /\ current_key_idx = 0
    /\ upstream = [k \in {0, 1} |-> IF k = 0 THEN "rate_limit" ELSE "ok"]
    /\ calls = [c \in Calls |-> IdleCall]
    /\ probe = NoProbe
    /\ bot = [ex \in Exchanges |-> IdleExchange]
    /\ now = 2 * UPDATE_INTERVAL

\* each coroutine runs from one await to the next; the event loop picks any
\* coroutine that is ready
NextRace ==
    \/ \E c \in Calls : CallStart(c, "reply", <<"user">>)
    \/ \E c \in Calls : Request(c)
    \/ \E c \in Calls : Succeed(c)
    \/ \E c \in Calls, exc \in Errors : Fail(c, exc)
    \/ \E c \in Calls : Retry(c)

SpecRace == InitRace /\ [][NextRace]_vars

(***************************************************************************)
(* _should_rotate_key applied to any exception                             *)
(***************************************************************************)
Classify ==
    /\ probe.verdict = "pending"
    /\ probe' = [probe EXCEPT !.verdict = IF _should_rotate_key(probe.exc) THEN "rotate" ELSE "keep"]
    /\ UNCHANGED <<storeVars, clientVars, bot, now>>

NextExc(exc) ==
    /\ probe.verdict # "pending"
    /\ probe' = [exc |-> exc, verdict |-> "pending"]
    /\ UNCHANGED <<storeVars, clientVars, bot, now>>

InitRotate ==
    /\ db = <<>>
    /\ store = <<>>
    /\ loaded = <<>>
    /\ lastOp = NoOp
    /\ recent = [u \in Users |-> <<>>]
    /\ held = [u \in Users |-> None]
    /\ written = [u \in Users |-> NoWrite]
    /\ _max_messages = max_messages
    /\ api_keys = 1
    /\ current_key_idx = 0
    /\ upstream = [k \in {0} |-> "ok"]
    /\ calls = [c \in Calls |-> IdleCall]
    /\ probe \in {[exc |-> e, verdict |-> "pending"] : e \in AllExcs}
    /\ bot = [ex \in Exchanges |-> IdleExchange]
    /\ now = 2 * UPDATE_INTERVAL

NextRotate ==
    \/ Classify
    \/ \E exc \in AllExcs : NextExc(exc)

SpecRotate == InitRotate /\ [][NextRotate]_vars

(***************************************************************************)
(* The storage API driven directly (as tests/test_storage.py does)         *)
(***************************************************************************)
StorageAppend(u, role, content) ==
    /\ Len(db) < MaxRows
    /\ db' = storage_append(db, u, role, content)
    /\ written' = [written EXCEPT ![u] =
                      [by |-> "append", msgs |-> Append(@.msgs, Message(role, content))]]
    /\ lastOp' = Op("storage_append", u)
    /\ UNCHANGED <<_max_messages, store, loaded, recent, held, clientVars, auxVars>>

StorageReplace(u, messages) ==
    /\ Len(DeleteUser(db, u)) + Len(messages) <= MaxRows
    /\ db' = replace_history(db, u, messages)
    /\ written' = [written EXCEPT ![u] = [by |-> "replace", msgs |-> messages]]
    /\ lastOp' = Op("replace_history", u)
    /\ UNCHANGED <<_max_messages, store, loaded, recent, held, clientVars, auxVars>>

StorageReset(u) ==
    /\ db' = reset_user(db, u)
    /\ written' = [written EXCEPT ![u] = [by |-> "reset", msgs |-> <<>>]]
    /\ lastOp' = Op("reset_user", u)
    /\ UNCHANGED <<_max_messages, store, loaded, recent, held, clientVars, auxVars>>

StorageLoad(u, limit) ==
    /\ loaded' = load_history(db, u, limit)
    /\ lastOp' = [Op("load_history", u) EXCEPT !.limit = limit]
    /\ UNCHANGED <<_max_messages, db, store, recent, held, written, clientVars, auxVars>>

NextStorage ==
    \/ \E u \in Users, m \in Messages : StorageAppend(u, m.role, m.content)
    \/ \E u \in Users, ms \in SeqsUpTo(Messages, MaxReplace) : StorageReplace(u, ms)
    \/ \E u \in Users : StorageReset(u)
    \/ \E u \in Users, limit \in 0..MaxLimit : StorageLoad(u, limit)

SpecStorage == Init /\ [][NextStorage]_vars

(***************************************************************************)
(* The formatters applied to one text (as tests/test_formatting.py does)   *)
(***************************************************************************)
\* the longest code body handed in
MaxBody == 4
BodyChars == {"a", "\n", " ", "*"}
\* the language tag of the opening fence line
Tags == {<<>>, <<"p", "y">>}
\* the prose in front of a fenced block
Prose == {<<>>, <<"*", "a", "*", " ">>}
\* the limits split_formatted_text is called with
Limits == {CHUNK_BODY_LIMIT, MAX_MESSAGE_LENGTH}

\* a fenced code block: opening fence line, body, closing fence on its own line
Fenced(tag, body) == Fence \o tag \o <<"\n">> \o body \o <<"\n">> \o Fence

\* the texts handed to the formatters, with the parts they are made of
TextInputs ==
    { [kind |-> "plain", prose |-> <<>>, tag |-> <<>>, body |-> body, text |-> body]
        : body \in SeqsUpTo(BodyChars, MaxBody) }
    \cup
    { [kind |-> "block", prose |-> prose, tag |-> tag, body |-> body,
       text |-> prose \o Fenced(tag, body)]
        : prose \in Prose, tag \in Tags, body \in SeqsUpTo(BodyChars, MaxBody) }

\* probe before a formatter is applied to input
Unapplied(input) == [fn |-> "none", input |-> input, limit |-> 0, out |-> <<>>]

SplitFormattedText(limit) ==
    /\ probe.fn = "none"
    /\ \E chunks \in {split_formatted_text(probe.input.text, limit)} :
          probe' = [probe EXCEPT !.fn = "split_formatted_text", !.limit = limit,
                                 !.out = chunks]
    /\ UNCHANGED <<storeVars, clientVars, bot, now>>

RemoveMarkdownStars ==
    /\ probe.fn = "none"
    /\ \E cleaned \in {remove_markdown_stars(probe.input.text)} :
          probe' = [probe EXCEPT !.fn = "remove_markdown_stars", !.out = <<cleaned>>]
    /\ UNCHANGED <<storeVars, clientVars, bot, now>>

FormatMessage ==
    /\ probe.fn = "none"
    /\ \E formatted \in {format_message(probe.input.text)} :
          probe' = [probe EXCEPT !.fn = "format_message", !.out = <<formatted>>]
    /\ UNCHANGED <<storeVars, clientVars, bot, now>>

InitText ==
    /\ db = <<>>
    /\ store = <<>>
    /\ loaded = <<>>
    /\ lastOp = NoOp
    /\ recent = [u \in Users |-> <<>>]
    /\ held = [u \in Users |-> None]
    /\ written = [u \in Users |-> NoWrite]
    /\ _max_messages = max_messages
    /\ api_keys = 1
    /\ current_key_idx = 0
    /\ upstream = [k \in {0} |-> "ok"]
    /\ calls = [c \in Calls |-> IdleCall]
    /\ probe \in {Unapplied(input) : input \in TextInputs}
    /\ bot = [ex \in Exchanges |-> IdleExchange]
    /\ now = 2 * UPDATE_INTERVAL

NextText ==
    \/ \E limit \in Limits : SplitFormattedText(limit)
    \/ RemoveMarkdownStars
    \/ FormatMessage

SpecText == InitText /\ [][NextText]_vars

(***************************************************************************)
(* Inputs of an exchange                                                   *)
(***************************************************************************)
\* the fragments the upstream stream is made of
Fragments ==
    { <<"a">>,
      <<"b", "\n">>,
      Fence \o <<"\n", "x">>,
      Fence,
      Fence \o <<"\n", "y">> \o Fence,
      Fence \o Fence \o <<"\n", "z">> \o Fence }
\* time that passes between two fragments, in tenths of a second: less than
\* UPDATE_INTERVAL between two fragments, more between three
Delays == {3}

(***************************************************************************)
(* TelegramAIAgent.on_message (src/src/bot.py:305-443): one exchange.      *)
(*                                                                         *)
(* A coroutine that awaits platform calls is an operator from the locals   *)
(* of the exchange to the set of its possible results [b, exc]: b the      *)
(* locals afterwards, exc the exception it raised ("none" if it returned). *)
(***************************************************************************)
\* the fixed phrases, each one symbol
ThinkingText == <<"THINKING">>
SendFailedText == <<"SEND_FAILED">>
UnavailableText == <<"UNAVAILABLE">>
\* f"Ответ длинный, частей: {len(chunks)}"
NoticeText(n) == <<"PARTS">> \o IntToChars(n)
\* f"Часть {idx}/{len(chunks)}"
PartLabel(idx, n) == <<"PART">> \o IntToChars(idx) \o <<"/">> \o IntToChars(n)
\* "Готово!" in Latin letters
DoneText == <<"G", "o", "t", "o", "v", "o", "!">>

\* telegram.error classes a platform call raises; NotModified is a BadRequest
\* whose text says "message is not modified"
SendErrors == {"BadRequest", "RetryAfter", "TimedOut"}
Caught == {"BadRequest", "RetryAfter", "TimedOut"}

\* one entry of the record of what an exchange did: the call, what it was
\* for, its arguments and result, the number of fragments taken so far, and for
\* a code-block message the block and the position of its last character
Event(call, what, text, parse_mode, result, b) ==
    [call |-> call, what |-> what, text |-> text, parse_mode |-> parse_mode,
     result |-> result, at |-> b.chunk_count, streaming |-> b.pc = "streaming",
     block |-> <<>>, end |-> 0, time |-> b.current_time]

Returned(b) == [b |-> b, exc |-> "none"]
Raised(b, exc) == [b |-> b, exc |-> exc]

\* message.reply_text(text, parse_mode=...); s and t are the values of b and text
reply_text(b, what, text, parse_mode) ==
    UNION { LET results == IF s.faults < MaxFaults THEN {"ok"} \cup SendErrors ELSE {"ok"}
            IN { [b |-> [s EXCEPT !.log = Append(@, Event("reply_text", what, t, parse_mode, r, s)),
                                  !.faults = IF r = "ok" THEN @ ELSE @ + 1],
                  exc |-> IF r = "ok" THEN "none" ELSE r] : r \in results }
          : s \in {b}, t \in {text} }

\* status_message.edit_text(text, parse_mode=...): the platform rejects an edit
\* that changes nothing; s and t are the values of b and text
edit_text(b, what, text, parse_mode) ==
    UNION { LET same == s.display = [text |-> t, parse_mode |-> parse_mode]
                results == IF same THEN {"NotModified"}
                           ELSE IF s.faults < MaxFaults THEN {"ok"} \cup SendErrors ELSE {"ok"}
            IN { [b |-> [s EXCEPT !.log = Append(@, Event("edit_text", what, t, parse_mode, r, s)),
                                  !.faults = IF r \in SendErrors THEN @ + 1 ELSE @,
                                  !.display = IF r = "ok"
                                              THEN [text |-> t, parse_mode |-> parse_mode] ELSE @],
                  exc |-> IF r = "ok" THEN "none" ELSE r] : r \in results }
          : s \in {b}, t \in {text} }

\* _safe_edit (bot.py:419-443); t is the value of text
_safe_edit(b, what, text, parse_mode) ==
    UNION { UNION { CASE r.exc = "none" -> {r}
                      [] r.exc = "NotModified" -> {Returned(r.b)}
                      [] r.exc = "BadRequest" /\ parse_mode = "MarkdownV2" ->
                            { IF r2.exc = "none" THEN r2
                              ELSE IF r2.exc = "NotModified" THEN Raised(r2.b, "BadRequest")
                              ELSE r2 : r2 \in edit_text(r.b, what, t, "None") }
                      [] OTHER -> {r}
                  : r \in edit_text(b, what, t, parse_mode) }
          : t \in {text} }

\* the last entry of the record is about the match m
OfBlock(results, m) ==
    { [r EXCEPT !.b.log[Len(r.b.log)].block = m.group0,
                !.b.log[Len(r.b.log)].end = m.end] : r \in results }

\* _send_code_blocks (bot.py:237-257) over the matches not yet visited; s and
\* ms are the values of b and matches
RECURSIVE SendBlocks(_, _)
SendBlocks(b, matches) ==
    UNION {
      IF ms = <<>> THEN {Returned(s)}
      ELSE LET m == ms[1]
               rest == Tail(ms)
               s1 == [s EXCEPT !.sent_code_blocks = @ \cup {m.group0}]
           IN IF m.group0 \in s.sent_code_blocks THEN SendBlocks(s, rest)
              ELSE IF CodeOf(m) = <<>> THEN SendBlocks(s1, rest)
              ELSE UNION {
                     CASE r.exc = "none" -> SendBlocks(r.b, rest)
                       [] r.exc = "BadRequest" ->
                            UNION { IF r2.exc \in Caught \cup {"none"}
                                    THEN SendBlocks(r2.b, rest) ELSE {r2}
                                  : r2 \in OfBlock(reply_text(r.b, "code", CodeMessage(m), "None"), m) }
                       [] OTHER -> {r}
                   : r \in OfBlock(reply_text(s1, "code", CodeMessage(m), "MarkdownV2"), m) }
    : s \in {b}, ms \in {matches} }

\* variant: the blocks are looked for in the text without the newest fragment
_send_code_blocks_Late(b) ==
    SendBlocks(b, CodeBlocks(SubSeq(b.accumulated_text, 1,
                                    IF b.chunk_count <= 1 THEN 0 ELSE b.lengths[b.chunk_count - 1])))

_send_code_blocks(b) == SendBlocks(b, CodeBlocks(b.accumulated_text))

Truncate(text, n) == SubSeq(text, 1, IF Len(text) < n THEN Len(text) ELSE n)

\* lines 282-301 of _update_status_message for the texts it has built
StatusEdits(b, current_time, safe_text, formatted_text) ==
    LET Done(x) == Returned([x EXCEPT !.pending_update = FALSE, !.last_update_time = current_time])
        Pending(x) == Returned([x EXCEPT !.pending_update = TRUE, !.last_update_time = current_time])
    IN UNION {
         CASE r.exc = "none" -> {Done(r.b)}
           [] r.exc \in {"RetryAfter", "TimedOut"} -> {Pending(r.b)}
           [] r.exc = "BadRequest" ->
                { IF r2.exc = "none" THEN Done(r2.b)
                  ELSE IF r2.exc \in Caught THEN Pending(r2.b)
                  ELSE r2
                : r2 \in _safe_edit(r.b, "status", Truncate(safe_text, MAX_MESSAGE_LENGTH), "None") }
           [] OTHER -> {r}
       : r \in _safe_edit(b, "status", formatted_text, "MarkdownV2") }

\* variant: the time since the last update is not looked at
_update_status_message_NoInterval(b, current_time) ==
    LET should_update ==
            \/ b.chunk_count = 1
            \/ Strip(b.accumulated_text, Whitespace) # <<>>
        skipped == [b EXCEPT !.pending_update = FALSE]
    IN IF ~should_update THEN {Returned(skipped)}
       ELSE UNION { UNION {
              IF Strip(safe_text, Whitespace) = <<>> THEN {Returned(skipped)}
              ELSE IF Strip(formatted_text, Whitespace) \in {<<>>, <<"-">>} THEN {Returned(skipped)}
              ELSE StatusEdits(b, current_time, safe_text, formatted_text)
            : formatted_text \in {IF Strip(safe_text, Whitespace) = <<>> THEN <<>>
                                  ELSE format_message(safe_text)} }
          : safe_text \in {remove_markdown_stars(TextWithoutCode(b.accumulated_text))} }

\* variant: the formatted text is edited in even when it is blank
_update_status_message_BlankShown(b, current_time) ==
    LET should_update ==
            \/ b.chunk_count = 1
            \/ /\ current_time - b.last_update_time >= UPDATE_INTERVAL
               /\ Strip(b.accumulated_text, Whitespace) # <<>>
        skipped == [b EXCEPT !.pending_update = FALSE]
    IN IF ~should_update THEN {Returned(skipped)}
       ELSE UNION { UNION {
              IF Strip(safe_text, Whitespace) = <<>> THEN {Returned(skipped)}
              ELSE StatusEdits(b, current_time, safe_text, formatted_text)
            : formatted_text \in {IF Strip(safe_text, Whitespace) = <<>> THEN <<>>
                                  ELSE format_message(safe_text)} }
          : safe_text \in {remove_markdown_stars(TextWithoutCode(b.accumulated_text))} }

\* _update_status_message (bot.py:259-303); pending_update and
\* last_update_time of the result are the pair it returns
_update_status_message(b, current_time) ==
    LET should_update ==
            \/ b.chunk_count = 1
            \/ /\ current_time - b.last_update_time >= UPDATE_INTERVAL
               /\ Strip(b.accumulated_text, Whitespace) # <<>>
        skipped == [b EXCEPT !.pending_update = FALSE]
    IN IF ~should_update THEN {Returned(skipped)}
       ELSE UNION { UNION {
              IF Strip(safe_text, Whitespace) = <<>> THEN {Returned(skipped)}
              ELSE IF Strip(formatted_text, Whitespace) \in {<<>>, <<"-">>} THEN {Returned(skipped)}
              ELSE StatusEdits(b, current_time, safe_text, formatted_text)
            : formatted_text \in {IF Strip(safe_text, Whitespace) = <<>> THEN <<>>
                                  ELSE format_message(safe_text)} }
          : safe_text \in {remove_markdown_stars(TextWithoutCode(b.accumulated_text))} }

\* the except clauses of on_message (bot.py:406-417): the exchange ends with
\* an apology, or the apology edit raises and the exception leaves on_message
Handle(r) ==
    LET send == r.exc \in Caught
        apology == _safe_edit(r.b, IF send THEN "apology_send" ELSE "apology_ai",
                              IF send THEN SendFailedText ELSE UnavailableText, "None")
    IN { IF a.exc = "none"
         THEN [a.b EXCEPT !.pc = IF send THEN "failed_send" ELSE "failed_ai"]
         ELSE [a.b EXCEPT !.pc = "crashed", !.escaped = a.exc] : a \in apology }

\* the exchange after a step inside the try block: on with next_pc, or handled
Outcomes(results, next_pc) ==
    UNION { IF r.exc = "none" THEN {[r.b EXCEPT !.pc = next_pc]} ELSE Handle(r) : r \in results }

\* the first __anext__ of generate_reply_stream issues the upstream request
Pull(b) ==
    IF \E k \in 1..Len(b.log) : b.log[k].call = "create" THEN b
    ELSE [b EXCEPT !.log = Append(@, Event("create", "request", <<>>, "None", "ok", b))]

\* lines 305-338: the user turn is recorded, the history is built
Receive(ex, u, content) ==
    /\ bot[ex].pc = "idle"
    /\ StoreAppend(u, "user", content)
    /\ bot' = [bot EXCEPT ![ex] =
                 [IdleExchange EXCEPT
                    !.pc = "recorded", !.user_id = u, !.faults = bot[ex].faults,
                    !.log = <<Event("append", "user", EncodeContent(content), "None", "ok",
                                    IdleExchange)>>]]
    /\ UNCHANGED <<clientVars, probe, now>>

\* line 340: the placeholder is posted, outside the try block
PostPlaceholder(ex) ==
    /\ bot[ex].pc = "recorded"
    /\ \E r \in reply_text(bot[ex], "placeholder", ThinkingText, "None") :
          bot' = [bot EXCEPT ![ex] =
                    IF r.exc = "none"
                    THEN [r.b EXCEPT !.pc = "streaming",
                                     !.display = [text |-> ThinkingText, parse_mode |-> "None"]]
                    ELSE [r.b EXCEPT !.pc = "crashed", !.escaped = r.exc]]
    /\ UNCHANGED <<storeVars, clientVars, probe, now>>

\* variant: a block is sent again whenever it is seen
OnChunk_NoSentSet(ex, chunk, delay) ==
    /\ bot[ex].pc = "streaming"
    /\ bot[ex].chunk_count < MaxFragments
    /\ now' = now + delay
    /\ LET b0 == Pull(bot[ex])
           b1 == [b0 EXCEPT !.accumulated_text = @ \o chunk,
                            !.chunk_count = @ + 1,
                            !.current_time = now',
                            !.lengths = Append(@, Len(b0.accumulated_text) + Len(chunk))]
           sent == UNION { IF r.exc = "none" THEN _send_code_blocks([r.b EXCEPT !.sent_code_blocks = {}])
                           ELSE {r} : r \in {Returned(b1)} }
           updated == UNION { IF r.exc = "none" THEN _update_status_message(r.b, now')
                              ELSE {r} : r \in sent }
       IN \E b2 \in Outcomes(updated, "streaming") : bot' = [bot EXCEPT ![ex] = b2]
    /\ UNCHANGED <<storeVars, clientVars, probe>>

\* lines 349-360: one pass of the async for loop over a fragment
OnChunk(ex, chunk, delay) ==
    /\ bot[ex].pc = "streaming"
    /\ bot[ex].chunk_count < MaxFragments
    /\ now' = now + delay
    /\ LET b0 == Pull(bot[ex])
           b1 == [b0 EXCEPT !.accumulated_text = @ \o chunk,
                            !.chunk_count = @ + 1,
                            !.current_time = now',
                            !.lengths = Append(@, Len(b0.accumulated_text) + Len(chunk))]
           sent == UNION { IF r.exc = "none" THEN _send_code_blocks(r.b)
                           ELSE {r} : r \in {Returned(b1)} }
           updated == UNION { IF r.exc = "none" THEN _update_status_message(r.b, now')
                              ELSE {r} : r \in sent }
       IN \E b2 \in Outcomes(updated, "streaming") : bot' = [bot EXCEPT ![ex] = b2]
    /\ UNCHANGED <<storeVars, clientVars, probe>>

\* the generator raises: every attempt of generate_reply_stream has failed
StreamError(ex) ==
    /\ bot[ex].pc = "streaming"
    /\ \E b2 \in Handle(Raised(Pull(bot[ex]), "UpstreamError")) :
          bot' = [bot EXCEPT ![ex] = b2]
    /\ UNCHANGED <<storeVars, clientVars, probe, now>>

\* lines 362-381: the forced edit of a pending update
ForcedEdit(b) ==
    IF ~b.pending_update THEN {Returned(b)}
    ELSE UNION { UNION {
           IF Strip(text_without_code, Whitespace) = <<>> THEN {Returned(b)}
           ELSE UNION {
                  IF r.exc \in Caught
                  THEN { IF r2.exc \in Caught THEN Returned(r2.b) ELSE r2
                       : r2 \in _safe_edit(r.b, "forced", Truncate(safe_text, MAX_MESSAGE_LENGTH), "None") }
                  ELSE {r}
                : r \in _safe_edit(b, "forced", format_message(safe_text), "MarkdownV2") }
         : safe_text \in {remove_markdown_stars(text_without_code)} }
       : text_without_code \in {TextWithoutCode(b.accumulated_text)} }

\* the generator is exhausted: the loop ends and lines 362-381 run
StreamExhausted(ex) ==
    /\ bot[ex].pc = "streaming"
    /\ LET b0 == Pull(bot[ex])
           b1 == [b0 EXCEPT !.log = Append(@, Event("stream_end", "stream", <<>>, "None", "ok", b0))]
       IN \E b2 \in Outcomes(ForcedEdit([b1 EXCEPT !.pc = "completed"]), "completed") :
             bot' = [bot EXCEPT ![ex] = b2]
    /\ UNCHANGED <<storeVars, clientVars, probe, now>>

\* variant: an empty answer is recorded as it is
RecordReply_NoDefault(ex) ==
    /\ bot[ex].pc = "completed"
    /\ \E accumulated_text \in {bot[ex].accumulated_text} :
       \E safe_reply \in {remove_markdown_stars(accumulated_text)} :
          /\ StoreAppend(bot[ex].user_id, "assistant", PyStr(safe_reply))
          /\ bot' = [bot EXCEPT ![ex] =
                       [@ EXCEPT !.pc = "finalizing",
                                 !.accumulated_text = accumulated_text,
                                 !.safe_reply = safe_reply,
                                 !.log = Append(@, Event("append", "assistant", safe_reply,
                                                         "None", "ok", bot[ex]))]]
    /\ UNCHANGED <<clientVars, probe, now>>

\* variant: the assistant turn is recorded while fragments still arrive
RecordReply_WhileStreaming(ex) ==
    /\ bot[ex].pc \in {"streaming", "completed"}
    /\ \E accumulated_text \in {IF bot[ex].accumulated_text = <<>> THEN DoneText
                                  ELSE bot[ex].accumulated_text} :
       \E safe_reply \in {remove_markdown_stars(accumulated_text)} :
          /\ StoreAppend(bot[ex].user_id, "assistant", PyStr(safe_reply))
          /\ bot' = [bot EXCEPT ![ex] =
                       [@ EXCEPT !.pc = "finalizing",
                                 !.accumulated_text = accumulated_text,
                                 !.safe_reply = safe_reply,
                                 !.log = Append(@, Event("append", "assistant", safe_reply,
                                                         "None", "ok", bot[ex]))]]
    /\ UNCHANGED <<clientVars, probe, now>>

\* lines 383-387: the assistant turn is recorded
RecordReply(ex) ==
    /\ bot[ex].pc = "completed"
    /\ \E accumulated_text \in {IF bot[ex].accumulated_text = <<>> THEN DoneText
                                  ELSE bot[ex].accumulated_text} :
       \E safe_reply \in {remove_markdown_stars(accumulated_text)} :
          /\ StoreAppend(bot[ex].user_id, "assistant", PyStr(safe_reply))
          /\ bot' = [bot EXCEPT ![ex] =
                       [@ EXCEPT !.pc = "finalizing",
                                 !.accumulated_text = accumulated_text,
                                 !.safe_reply = safe_reply,
                                 !.log = Append(@, Event("append", "assistant", safe_reply,
                                                         "None", "ok", bot[ex]))]]
    /\ UNCHANGED <<clientVars, probe, now>>

\* variant: the number of a part is announced after the part
RECURSIVE SendParts_LabelAfter(_, _, _)
SendParts_LabelAfter(b, chunks, idx) ==
    IF idx > Len(chunks) THEN {Returned(b)}
    ELSE UNION {
           IF r.exc # "none" THEN {r}
           ELSE UNION { IF r2.exc # "none" THEN {r2} ELSE SendParts_LabelAfter(r2.b, chunks, idx + 1)
                      : r2 \in reply_text(r.b, "part_label", PartLabel(idx, Len(chunks)), "None") }
         : r \in reply_text(b, "part", chunks[idx], "MarkdownV2") }

\* lines 400-404: the numbered parts from part idx on
RECURSIVE SendParts(_, _, _)
SendParts(b, chunks, idx) ==
    IF idx > Len(chunks) THEN {Returned(b)}
    ELSE UNION {
           IF r.exc # "none" THEN {r}
           ELSE UNION { IF r2.exc # "none" THEN {r2} ELSE SendParts(r2.b, chunks, idx + 1)
                      : r2 \in reply_text(r.b, "part", chunks[idx], "MarkdownV2") }
         : r \in reply_text(b, "part_label", PartLabel(idx, Len(chunks)), "None") }

\* variant: the final answer is shown without waiting for the stream to end
SendFinal_Early(ex) ==
    /\ bot[ex].pc \in {"streaming", "finalizing"}
    /\ \E formatted_text \in {format_message(bot[ex].safe_reply)} :
       \E chunks \in {split_formatted_text(formatted_text, CHUNK_BODY_LIMIT)} :
          LET b == [bot[ex] EXCEPT !.chunks = chunks]
              results ==
                  IF Len(chunks) = 1 THEN _safe_edit(b, "final", chunks[1], "MarkdownV2")
                  ELSE UNION { IF r.exc # "none" THEN {r} ELSE SendParts(r.b, chunks, 1)
                             : r \in _safe_edit(b, "notice", NoticeText(Len(chunks)), "None") }
          IN \E b2 \in Outcomes(results, "done") : bot' = [bot EXCEPT ![ex] = b2]
    /\ UNCHANGED <<storeVars, clientVars, probe, now>>

\* lines 389-404: the final answer is shown
SendFinal(ex) ==
    /\ bot[ex].pc = "finalizing"
    /\ \E formatted_text \in {format_message(bot[ex].safe_reply)} :
       \E chunks \in {split_formatted_text(formatted_text, CHUNK_BODY_LIMIT)} :
          LET b == [bot[ex] EXCEPT !.chunks = chunks]
              results ==
                  IF Len(chunks) = 1 THEN _safe_edit(b, "final", chunks[1], "MarkdownV2")
                  ELSE UNION { IF r.exc # "none" THEN {r} ELSE SendParts(r.b, chunks, 1)
                             : r \in _safe_edit(b, "notice", NoticeText(Len(chunks)), "None") }
          IN \E b2 \in Outcomes(results, "done") : bot' = [bot EXCEPT ![ex] = b2]
    /\ UNCHANGED <<storeVars, clientVars, probe, now>>

\* one exchange at a time
NoOtherExchange(ex) == ex = 1 /\ \A other \in Exchanges \ {ex} : bot[other].pc = "idle"

InitBot ==
    /\ db = <<>>
    /\ store = <<>>
    /\ loaded = <<>>
    /\ lastOp = NoOp
    /\ recent = [u \in Users |-> <<>>]
    /\ held = [u \in Users |-> None]
    /\ written = [u \in Users |-> NoWrite]
    /\ _max_messages = max_messages
    /\ api_keys = 1
    /\ current_key_idx = 0
    /\ upstream = [k \in {0} |-> "ok"]
    /\ calls = [c \in Calls |-> IdleCall]
    /\ probe = NoProbe
    /\ bot = [ex \in Exchanges |-> IdleExchange]
    /\ now = 2 * UPDATE_INTERVAL

NextBot ==
    \/ \E ex \in Exchanges, u \in {1}, content \in UserContents :
          NoOtherExchange(ex) /\ Receive(ex, u, content)
    \/ \E ex \in Exchanges : PostPlaceholder(ex)
    \/ \E ex \in Exchanges, chunk \in Fragments, delay \in Delays : OnChunk(ex, chunk, delay)
    \/ \E ex \in Exchanges : StreamError(ex)
    \/ \E ex \in Exchanges : StreamExhausted(ex)
    \/ \E ex \in Exchanges : RecordReply(ex)
    \/ \E ex \in Exchanges : SendFinal(ex)

SpecBot == InitBot /\ [][NextBot]_vars

(***************************************************************************)
(* Two messages of one user handled at the same time, by a store that has  *)
(* room for the turns of both exchanges and a platform that answers every  *)
(* call                                                                    *)
(***************************************************************************)
\* what the user writes in the two messages
PairContents == {PyStr(TextHi), PyStr(TextOne)}
\* the fragments of the two replies
PairFragments == {<<"a">>}

InitPair ==
    /\ db = <<>>
    /\ store = <<>>
    /\ loaded = <<>>
    /\ lastOp = NoOp
    /\ recent = [u \in Users |-> <<>>]
    /\ held = [u \in Users |-> None]
    /\ written = [u \in Users |-> NoWrite]
    /\ _max_messages = 2 * max_messages
    /\ api_keys = 1
    /\ current_key_idx = 0
    /\ upstream = [k \in {0} |-> "ok"]
    /\ calls = [c \in Calls |-> IdleCall]
    /\ probe = NoProbe
    /\ bot = [ex \in Exchanges |-> [IdleExchange EXCEPT !.faults = MaxFaults]]
    /\ now = 2 * UPDATE_INTERVAL

\* each on_message coroutine runs from one await to the next; the event loop
\* picks any coroutine that is ready
NextPair ==
    \/ \E ex \in Exchanges, u \in {1}, content \in PairContents : Receive(ex, u, content)
    \/ \E ex \in Exchanges : PostPlaceholder(ex)
    \/ \E ex \in Exchanges, chunk \in PairFragments, delay \in Delays : OnChunk(ex, chunk, delay)
    \/ \E ex \in Exchanges : StreamError(ex)
    \/ \E ex \in Exchanges : StreamExhausted(ex)
    \/ \E ex \in Exchanges : RecordReply(ex)
    \/ \E ex \in Exchanges : SendFinal(ex)

SpecPair == InitPair /\ [][NextPair]_vars

(***************************************************************************)
(* Properties of the dialogue store                                        *)
(***************************************************************************)
\* all rows of a user, in insertion order, as load_history reconstructs them
Durable(u) == load_history(db, u, Len(UserRows(db, u)))

\* C1: whatever get / append / reset / restart did, no cached history holds
\* more than max_messages messages
C1_HistoryBounded ==
    \A u \in DOMAIN store : Len(store[u]) <= max_messages

\* a full window was lazily loaded from the table by the first get after a restart
C1_Witness ==
    /\ lastOp.op = "get"
    /\ lastOp.fresh
    /\ Len(store[lastOp.user_id]) = max_messages

\* C2: once more than max_messages messages were appended to a user, the
\* history is exactly the last max_messages of them, in append order
C2_KeepsMostRecent ==
    \A u \in Users :
        Len(recent[u]) > max_messages =>
            /\ Cached(u)
            /\ store[u] = LastN(recent[u], max_messages)

\* an append overflowed the window and the evicted message differs from the
\* one now at the front
C2_Witness ==
    \E u \in Users :
        /\ lastOp = [Op("append", u) EXCEPT !.rowsBefore = max_messages]
        /\ Len(recent[u]) = max_messages + 1
        /\ recent[u][1] # recent[u][2]
        /\ store[u][1] = recent[u][2]

\* C3 (as claimed): after ContextStore.append and ContextStore.reset the rows
\* of the user, read back in insertion order, are the in-memory history
C3_DurableEqualsMemory ==
    (lastOp.op \in {"append", "reset"} /\ Cached(lastOp.user_id)) =>
        Durable(lastOp.user_id) = store[lastOp.user_id]

\* C4 (as claimed): the first get of a user after a restart returns the
\* history the store held after the last append or reset of that user
C4_RestartRestoresHistory ==
    (lastOp.op = "get" /\ lastOp.fresh /\ held[lastOp.user_id].known) =>
        store[lastOp.user_id] = held[lastOp.user_id].history

\* C5: after reset(user) the table has no row of the user, and the history
\* get(user) returns is empty, cached before or not
C5_ResetEmptiesBoth ==
    lastOp.op = "reset" =>
        /\ UserRows(db, lastOp.user_id) = <<>>
        /\ StoreAfterGet(lastOp.user_id)[lastOp.user_id] = <<>>

\* reset of a user that has rows in the table but no state in the dict
C5_Witness ==
    /\ lastOp.op = "reset"
    /\ lastOp.fresh
    /\ lastOp.rowsBefore > 0

\* C6: an append / replace_history / reset for one user (lastOp names the
\* operation a step performed) changes neither the rows nor the cached
\* history of any other user
OtherUsersUnchanged(u) ==
    \A v \in Users \ {u} :
        /\ UserRows(db', v) = UserRows(db, v)
        /\ Cached(v) <=> v \in DOMAIN store'
        /\ Cached(v) => store'[v] = store[v]

C6_PerUserScope ==
    [][lastOp'.op \in {"append", "reset", "replace_history", "storage_append", "reset_user"}
          => OtherUsersUnchanged(lastOp'.user_id)]_vars

\* an append happened while another user had rows and a cached history
C6_Witness ==
    /\ lastOp.op = "append"
    /\ \E v \in Users \ {lastOp.user_id} :
          /\ Cached(v)
          /\ store[v] # <<>>
          /\ UserRows(db, v) # <<>>

\* C7 (as claimed): after storage appends, load_history returns the most
\* recent records in insertion order, each content equal to what was appended
C7_AppendLoadRoundTrip ==
    (lastOp.op = "load_history" /\ written[lastOp.user_id].by = "append") =>
        loaded = LastN(written[lastOp.user_id].msgs, lastOp.limit)

\* C8 (as claimed): replace_history then load_history with a limit that
\* covers the replacement returns exactly the replacement
C8_ReplaceLoadRoundTrip ==
    (/\ lastOp.op = "load_history"
     /\ written[lastOp.user_id].by = "replace"
     /\ lastOp.limit >= Len(written[lastOp.user_id].msgs)) =>
        loaded = written[lastOp.user_id].msgs

\* C9: a logical call issues at most StopAfterAttempt requests; it returns
\* on its first successful attempt (every earlier one failed), after a failure
\* with attempts left it goes on to retry, and it raises an upstream error
\* only after StopAfterAttempt failed attempts, the error being the last one
C9_RetryPolicy ==
    \A c \in Calls :
        LET k == calls[c] IN
        /\ k.requests <= StopAfterAttempt
        /\ k.pc = "returned" => k.requests = k.failures + 1
        /\ k.pc = "backoff" => k.failures = k.requests /\ k.requests < StopAfterAttempt
        /\ (k.pc = "raised" /\ k.result # ValueError) =>
              /\ k.requests = StopAfterAttempt
              /\ k.failures = StopAfterAttempt
              /\ k.result = k.last_exc

\* a streaming call gave up after its third failed attempt
C9_Witness ==
    \E c \in Calls :
        /\ calls[c].pc = "raised"
        /\ calls[c].mode = "stream"
        /\ calls[c].requests = StopAfterAttempt
        /\ calls[c].result \in Errors

\* keys {A, B} = {0, 1}: every request with A is rate limited, every request
\* with B succeeds
RotationScenario ==
    /\ api_keys = 2
    /\ upstream[0] = "rate_limit"
    /\ upstream[1] = "ok"

\* C10: in the rotation scenario a generate_reply call started with A active
\* ends by returning B's answer with B the active key
C10_RotatesToWorkingKey ==
    \A c \in Calls :
        (/\ RotationScenario
         /\ calls[c].mode = "reply"
         /\ calls[c].initial_key_idx = 0
         /\ calls[c].pc \in {"returned", "raised"}
         /\ calls[c].result # ValueError) =>
            /\ calls[c].pc = "returned"
            /\ calls[c].result = Reply(1)
            /\ current_key_idx = 1

\* such a call failed once with A and then returned
C10_Witness ==
    \E c \in Calls :
        /\ RotationScenario
        /\ calls[c].mode = "reply"
        /\ calls[c].initial_key_idx = 0
        /\ calls[c].pc = "returned"
        /\ calls[c].failures = 1
        /\ calls[c].keys_tried = <<0, 1>>

\* every request of the call is answered by a rate-limit error
AllRateLimited == \A k \in 0..(api_keys - 1) : upstream[k] = "rate_limit"
Range(q) == {q[i] : i \in 1..Len(q)}

\* C11 (as claimed): with two or more keys and every attempt failing with a
\* rotation-worthy error, the call never makes active a key it has already
\* tried, other than leaving the key of its latest attempt in place
C11_NoReactivation ==
    \A c \in Calls :
        (/\ api_keys >= 2
         /\ AllRateLimited
         /\ calls[c].keys_tried # <<>>
         /\ calls[c].pc \in {"backoff", "attempt", "waiting", "raised"}) =>
            (current_key_idx \in Range(calls[c].keys_tried)
                => current_key_idx = calls[c].keys_tried[Len(calls[c].keys_tried)])

\* C12 (as claimed): status 429 always rotates, status 400 rotates only with
\* the "too many" marker, a RateLimitError always rotates, nothing else does
C12_RotationClasses ==
    probe.verdict # "pending" =>
        (probe.verdict = "rotate" <=>
            \/ probe.exc.cls = "RateLimitError"
            \/ probe.exc.status = 429
            \/ probe.exc.status = 400 /\ probe.exc.too_many)

\* C13: a call whose message list holds a role outside CHAT_ROLES ends by
\* raising ValueError, having issued no request, made no attempt and left the
\* active key where it was
C13_InvalidRoleFailsFast ==
    \A c \in Calls :
        (calls[c].pc # "idle" /\ ~calls[c].roles_ok) =>
            /\ calls[c].pc = "raised"
            /\ calls[c].result = ValueError
            /\ calls[c].requests = 0
            /\ calls[c].attempt = 0
            /\ calls[c].failures = 0
            /\ current_key_idx = calls[c].key_at_call

\* a streaming call was rejected for its second message's role while a key
\* other than the first was active
C13_Witness ==
    \E c \in Calls :
        /\ ~calls[c].roles_ok
        /\ calls[c].mode = "stream"
        /\ calls[c].pc = "raised"
        /\ calls[c].key_at_call # 0

NonEmpty(deltas) == SelectSeq(deltas, LAMBDA d : d # "")

\* C14: a streaming call whose stream ended without any error has yielded
\* exactly the non-empty deltas of the upstream chunks, in order, and has
\* issued one request, with stream=True
C14_StreamYieldsDeltas ==
    \A c \in Calls :
        (calls[c].mode = "stream" /\ calls[c].pc = "returned" /\ calls[c].failures = 0) =>
            /\ calls[c].yielded = NonEmpty(calls[c].fragments)
            /\ calls[c].requests = 1
            /\ calls[c].stream_flags = <<TRUE>>

\* a stream of an empty and a non-empty chunk was consumed to its end
C14_Witness ==
    \E c \in Calls :
        /\ calls[c].mode = "stream"
        /\ calls[c].pc = "returned"
        /\ calls[c].failures = 0
        /\ Len(calls[c].fragments) = MaxChunks
        /\ "" \in Range(calls[c].fragments)
        /\ calls[c].yielded # <<>>

(***************************************************************************)
(* Properties of an exchange                                               *)
(***************************************************************************)
\* the rows of a user's turns with a role in the durable store
TurnRows(u, role) == {k \in 1..Len(db) : db[k].user_id = u /\ db[k].role = role}
\* the entries of the record of an exchange about a call made for a purpose
Logged(b, call, what) == {k \in 1..Len(b.log) : b.log[k].call = call /\ b.log[k].what = what}

\* the length of the accumulated text after n fragments
LengthAfter(b, n) == IF n = 0 THEN 0 ELSE b.lengths[n]

\* C15: in every exchange the assistant turn is appended to the store at most
\* once and only after the fragment stream has completed: it is the whole
\* accumulated text; while fragments arrive nothing is appended, and nothing is
\* appended when the stream ended with an upstream error.
C15_AssistantOnceAfterStream ==
    \A ex \in Exchanges : bot[ex].pc # "idle" =>
        LET b == bot[ex]
            turns == TurnRows(b.user_id, "assistant")
        IN /\ Cardinality(turns) <= 1
           /\ Cardinality(turns) = Cardinality(Logged(b, "append", "assistant"))
           /\ turns # {} =>
                 /\ Logged(b, "stream_end", "stream") # {}
                 /\ b.pc \notin {"recorded", "streaming", "completed"}
                 /\ \A k \in Logged(b, "append", "assistant") :
                       /\ b.log[k].at = b.chunk_count
                       /\ b.log[k].text = b.safe_reply
                       /\ ~b.log[k].streaming
                 /\ \/ Len(b.accumulated_text) = LengthAfter(b, b.chunk_count)
                    \/ b.chunk_count = 0 /\ b.accumulated_text = DoneText
                 /\ \A k \in turns : db[k].content = EncodeContent(PyStr(b.safe_reply))
           /\ b.pc \in {"recorded", "streaming", "completed"} => turns = {}
           /\ Logged(b, "edit_text", "apology_ai") # {} => turns = {}

\* an exchange of several fragments is over and its assistant turn is stored
C15_Witness ==
    /\ bot[1].pc = "done"
    /\ bot[1].chunk_count >= 2
    /\ TurnRows(1, "assistant") # {}

\* an exchange has ended with one of the two apologies shown
Failed(b) == b.pc \in {"failed_send", "failed_ai"}
\* the row of the user turn the exchange recorded is in the durable store
UserTurnStored(b) ==
    \E k \in TurnRows(b.user_id, "user") : db[k].content = b.log[1].text

\* C16: for every exchange that ended in failure (either apology shown) after
\* its user turn was recorded, the durable store still contains that user turn
\* and contains no assistant turn of the exchange.
C16_FailureKeepsUserOnly ==
    \A ex \in Exchanges : Failed(bot[ex]) =>
        /\ UserTurnStored(bot[ex])
        /\ TurnRows(bot[ex].user_id, "assistant") = {}

\* the entries of the record for code-block messages the platform accepted
CodeSends(b) == {k \in Logged(b, "reply_text", "code") : b.log[k].result = "ok"}

\* C17: within one exchange, however many fragments arrive after a fenced
\* block was closed, each distinct completed block (the text from its opening
\* to its closing fence) is sent as a platform message of its own at most once,
\* and the message is the one built from that block.
C17_BlockSentOnce ==
    \A ex \in Exchanges :
        LET b == bot[ex] IN
        /\ \A j, k \in CodeSends(b) : b.log[j].block = b.log[k].block => j = k
        /\ \A k \in CodeSends(b) :
              LET e == b.log[k]
                  m == CodeBlockMatchAt(e.block, 1)
              IN /\ m.found
                 /\ m.end = Len(e.block)
                 /\ e.text = CodeMessage(m)
                 /\ SubSeq(b.accumulated_text, e.end - Len(e.block) + 1, e.end) = e.block

\* a block was sent and further fragments arrived while it stayed in the text
C17_Witness ==
    \E k \in CodeSends(bot[1]) :
        /\ bot[1].log[k].at < bot[1].chunk_count
        /\ bot[1].pc = "streaming"

\* C18: within one exchange the code-block messages are sent in the order in
\* which the closing fences of their blocks appear in the accumulated text,
\* each while the fragment that brought the end of the closing fence is
\* being processed.
C18_BlocksInFenceOrder ==
    \A ex \in Exchanges :
        LET b == bot[ex] IN
        /\ \A j, k \in CodeSends(b) : j < k => b.log[j].end < b.log[k].end
        /\ \A k \in CodeSends(b) :
              LET e == b.log[k] IN
              /\ e.streaming
              /\ e.at >= 1
              /\ LengthAfter(b, e.at - 1) < e.end
              /\ e.end <= LengthAfter(b, e.at)

\* two blocks closed by one fragment and a block closed by a later fragment
\* were all sent
C18_Witness ==
    \E j, k, l \in CodeSends(bot[1]) :
        /\ j < k
        /\ bot[1].log[j].at = bot[1].log[k].at
        /\ bot[1].log[k].at < bot[1].log[l].at

\* C19: no exception escapes the coordinator for one inbound message: a
\* platform error during a send or an edit ends the exchange with the fixed
\* send-failure apology on display, an upstream completion error ends it with
\* the service-unavailable apology on display.
C19_NoExceptionEscapes ==
    \A ex \in Exchanges :
        LET b == bot[ex] IN
        /\ b.pc # "crashed"
        /\ b.pc = "failed_send" => b.display.text = SendFailedText
        /\ b.pc = "failed_ai" => b.display.text = UnavailableText

\* what the final answer is shown with: the final edit, the parts notice, the
\* numbered part labels and the parts
FinalOutputs == {"final", "notice", "part_label", "part"}

\* C20: in every exchange the placeholder status message is posted before the
\* first upstream request is issued, and the final-content edit, the parts
\* notice and the numbered part messages are emitted only after the fragment
\* stream has completed.
C20_PlaceholderFirstFinalLast ==
    \A ex \in Exchanges :
        LET b == bot[ex] IN
        /\ \A k \in Logged(b, "create", "request") :
              \E j \in Logged(b, "reply_text", "placeholder") : j < k /\ b.log[j].result = "ok"
        /\ \A k \in 1..Len(b.log) : b.log[k].what \in FinalOutputs =>
              /\ \E j \in Logged(b, "stream_end", "stream") : j < k
              /\ ~b.log[k].streaming
              /\ b.log[k].at = b.chunk_count

\* an exchange of several fragments has ended with its answer sent in parts
C20_Witness ==
    /\ bot[1].pc = "done"
    /\ bot[1].chunk_count >= 2
    /\ Logged(bot[1], "create", "request") # {}
    /\ Logged(bot[1], "edit_text", "notice") # {}
    /\ Logged(bot[1], "reply_text", "part") # {}

(***************************************************************************)
(* Properties of the formatters                                            *)
(***************************************************************************)
\* C21: a text no longer than the limit is returned by split_formatted_text
\* as exactly one chunk, the text without its leading and trailing newlines
C21_ShortTextOneChunk ==
    (probe.fn = "split_formatted_text" /\ Len(probe.input.text) <= probe.limit)
        => probe.out = <<Strip(probe.input.text, Newline)>>

\* a short text with newlines around it came back as one trimmed chunk
C21_Witness ==
    /\ probe.fn = "split_formatted_text"
    /\ Len(probe.input.text) <= probe.limit
    /\ probe.input.kind = "plain"
    /\ Len(probe.input.text) >= 3
    /\ probe.input.text[1] = "\n"
    /\ probe.input.text[Len(probe.input.text)] = "\n"
    /\ Len(probe.out) = 1
    /\ probe.out[1] # <<>>
    /\ probe.out[1] # probe.input.text

\* the parts of a list of texts, joined
RECURSIVE Joined(_)
Joined(parts) ==
    IF parts = <<>> THEN <<>> ELSE Head(parts) \o Joined(Tail(parts))

\* chunk without the opening fence line and the closing fence
ChunkBody(chunk, header) == SubSeq(chunk, Len(header) + 1, Len(chunk) - 4)

\* C22: of a single fenced code block longer than the limit, every chunk of
\* split_formatted_text begins with the opening fence line (language tag
\* included) and ends with the closing fence, and the chunk bodies, joined,
\* are the code body of the block
C22_FencedChunksReproduceBody ==
    (/\ probe.fn = "split_formatted_text"
     /\ probe.input.kind = "block"
     /\ probe.input.prose = <<>>
     /\ Len(probe.input.text) > probe.limit)
        => LET header == Fence \o probe.input.tag \o <<"\n">>
               chunks == probe.out
           IN /\ \A k \in 1..Len(chunks) :
                    /\ StartsAt(chunks[k], 1, header)
                    /\ EndsWith(chunks[k], <<"\n">> \o Fence)
              /\ Joined([k \in 1..Len(chunks) |-> ChunkBody(chunks[k], header)])
                    = probe.input.body

\* the positions of text at which lit starts
Occurrences(text, lit) == {i \in 1..Len(text) : StartsAt(text, i, lit)}

\* C23: remove_markdown_stars returns a text that holds every fenced code
\* block of its input unchanged, and applying it to its own result changes
\* nothing
C23_EmphasisKeepsCodeBlocks ==
    (probe.fn = "remove_markdown_stars" /\ probe.input.kind = "block")
        => /\ Occurrences(probe.out[1], Fenced(probe.input.tag, probe.input.body)) # {}
           /\ remove_markdown_stars(probe.out[1]) = probe.out[1]

\* the body of the block holds a character that is not white space
HasCode(body) == \E i \in 1..Len(body) : body[i] \notin Whitespace

\* C24: of an input with a fenced code block whose body is not empty,
\* format_message returns a text that holds the block exactly once, its fences
\* not escaped and its body as in the input
C24_FormatKeepsCodeBlock ==
    (/\ probe.fn = "format_message"
     /\ probe.input.kind = "block"
     /\ HasCode(probe.input.body))
        => Cardinality(Occurrences(probe.out[1],
                                   Fenced(probe.input.tag, probe.input.body))) = 1

(***************************************************************************)
(* Properties of the completion client under retries and concurrent calls  *)
(***************************************************************************)
\* C25: what a call of generate_reply_stream has delivered to its consumer
\* are the fragments of one upstream response: after a retry nothing that an
\* abandoned attempt had already yielded is part of it or is delivered again
C25_SingleResponseDelivered ==
    \A c \in Calls :
        (calls[c].mode = "stream" /\ calls[c].pc \in {"streaming", "returned"}) =>
            calls[c].yielded = NonEmpty(calls[c].fragments)

\* C26: two calls of generate_reply share a client with the keys {A, B}, A
\* always rate limited and B always working; however their attempts and
\* rotations interleave, each call ends by returning B's answer
C26_BothReturnB ==
    \A c \in Calls :
        calls[c].pc \in {"returned", "raised"} => calls[c].result = Reply(1)

\* call c has just failed: the except block has run and nothing else since
JustFailed(c) ==
    /\ calls[c].pc \in {"backoff", "raised"}
    /\ calls[c].failures >= 1
    /\ calls[c].last_exc.kind = "exc"

\* the attempt under way follows a failed one that was not rotation-worthy,
\* and is made with the key of the failed one
RetriedWithSameKey(c) ==
    (/\ calls[c].pc \in {"waiting", "streaming", "returned"}
     /\ calls[c].failures >= 1
     /\ ~_should_rotate_key(calls[c].last_exc))
        => LET n == Len(calls[c].keys_tried)
           IN calls[c].keys_tried[n] = calls[c].keys_tried[n - 1]

\* C27 as stated: a failure that is not rotation-worthy leaves the active key
\* unchanged and the retry uses the same key; a rotation-worthy failure
\* advances the active key by one position, wrapping around, whenever there
\* is more than one key
C27_RotationFrame ==
    \A c \in Calls :
        /\ JustFailed(c) =>
              IF _should_rotate_key(calls[c].last_exc)
              THEN api_keys > 1 =>
                      current_key_idx = (calls[c].key_used + 1) % api_keys
              ELSE current_key_idx = calls[c].key_used
        /\ RetriedWithSameKey(c)

\* C27, amended: a failure that is not rotation-worthy leaves the active key
\* unchanged and the retry uses the same key; a rotation-worthy failure
\* advances the active key by one position, wrapping around, when there is
\* more than one key and the call has not yet rotated through all of them;
\* once it has, the active key is left unchanged
C27_RotationFrameUntilAllTried ==
    \A c \in Calls :
        /\ JustFailed(c) =>
              IF _should_rotate_key(calls[c].last_exc)
              THEN api_keys > 1 =>
                      \/ current_key_idx = (calls[c].key_used + 1) % api_keys
                      \/ /\ current_key_idx = calls[c].key_used
                         /\ calls[c].keys_rotated >= api_keys
              ELSE current_key_idx = calls[c].key_used
        /\ RetriedWithSameKey(c)

\* a rate-limit failure with the last of three keys moved the client to the
\* first key, after a failure of another kind had been retried with the
\* same key
C27_Witness ==
    \E c \in Calls :
        /\ JustFailed(c)
        /\ _should_rotate_key(calls[c].last_exc)
        /\ api_keys = MaxKeys
        /\ calls[c].key_used = api_keys - 1
        /\ current_key_idx = 0
        /\ calls[c].keys_tried = <<api_keys - 1, api_keys - 1>>

(***************************************************************************)
(* Properties of two exchanges of one user                                 *)
(***************************************************************************)
\* the turns of a history as (role, stored text) pairs
TurnsOf(history) ==
    [k \in 1..Len(history) |->
        [role |-> history[k].role, text |-> EncodeContent(history[k].content)]]
\* the rows of user u in the table, in id order, as (role, stored text) pairs
RowsOf(u) ==
    LET rows == SelectSeq(db, LAMBDA row : row.user_id = u)
    IN [k \in 1..Len(rows) |-> [role |-> rows[k].role, text |-> rows[k].content]]
\* the user turn and the assistant turn of an exchange
UserTurn(b) == [role |-> "user", text |-> b.log[1].text]
AssistantTurn(b) == [role |-> "assistant", text |-> EncodeContent(PyStr(b.safe_reply))]
\* turns holds the four turns of the exchanges a and b, each user turn before
\* the assistant turn of its exchange
HoldsBoth(turns, a, b) ==
    /\ Len(turns) = 4
    /\ \E ua, aa, ub, ab \in 1..4 :
          /\ Cardinality({ua, aa, ub, ab}) = 4
          /\ ua < aa /\ ub < ab
          /\ turns[ua] = UserTurn(a) /\ turns[aa] = AssistantTurn(a)
          /\ turns[ub] = UserTurn(b) /\ turns[ab] = AssistantTurn(b)
\* both exchanges have recorded their assistant turn
BothRecorded ==
    \A ex \in Exchanges : bot[ex].pc \in {"finalizing", "done", "failed_send"}

\* C28: when two exchanges of one user, interleaved in any way, have both
\* recorded their reply and the four turns fit the capacity, the history in
\* memory and the durable history each hold the two user turns and the two
\* assistant turns, every user turn before the assistant turn of its
\* exchange, and the durable history read back equals the one in memory
C28_BothExchangesStored ==
    (BothRecorded /\ 4 <= _max_messages) =>
        /\ HoldsBoth(TurnsOf(store[1]), bot[1], bot[2])
        /\ HoldsBoth(RowsOf(1), bot[1], bot[2])
        /\ Durable(1) = store[1]

(***************************************************************************)
(* Properties of the status updates                                        *)
(***************************************************************************)
\* the status edits tried for fragment n, and those the platform applied
StatusTried(b, n) ==
    {k \in 1..Len(b.log) :
        b.log[k].call = "edit_text" /\ b.log[k].what = "status" /\ b.log[k].at = n}
StatusApplied(b) ==
    {k \in 1..Len(b.log) :
        b.log[k].call = "edit_text" /\ b.log[k].what = "status" /\ b.log[k].result = "ok"}
\* a platform call made for fragment n raised before the status update
FailedAt(b, n) ==
    \E k \in 1..Len(b.log) :
        b.log[k].call = "reply_text" /\ b.log[k].at = n /\ b.log[k].result \in SendErrors
\* any two status edits applied during streaming are UPDATE_INTERVAL apart
EditsApart(b) ==
    \A j, k \in StatusApplied(b) :
        j < k => b.log[k].time - b.log[j].time >= UPDATE_INTERVAL
\* the text after the first fragment
FirstText(b) == SubSeq(b.accumulated_text, 1, b.lengths[1])
\* the status text of a text is not blank, so that it can be shown
Showable(text) ==
    \E safe_text \in {remove_markdown_stars(TextWithoutCode(text))} :
        /\ Strip(safe_text, Whitespace) # <<>>
        /\ Strip(format_message(safe_text), Whitespace) \notin {<<>>, <<"-">>}

LastUpdateSkipped(b) ==
    /\ b.chunk_count >= 1
    /\ ~FailedAt(b, b.chunk_count)
    /\ StatusTried(b, b.chunk_count) = {}
\* the forced edits of Finalizing that the platform applied
ForcedApplied(b) ==
    {k \in 1..Len(b.log) :
        b.log[k].call = "edit_text" /\ b.log[k].what = "forced" /\ b.log[k].result = "ok"}

\* C30: when the stream has ended and the status update of the last fragment
\* was skipped, so that no update was applied after it, and the text without
\* code blocks is not blank, exactly one forced status edit has been applied
\* before the final edit
C30_SkippedUpdateForced ==
    \A ex \in Exchanges :
        LET b == bot[ex]
        IN (/\ b.pc \in {"completed", "finalizing", "done"}
            /\ LastUpdateSkipped(b)
            /\ Strip(TextWithoutCode(b.accumulated_text), Whitespace) # <<>>)
               => Cardinality(ForcedApplied(b)) = 1

\* C37: whatever the text and the limit, no chunk returned by
\* split_formatted_text is longer than the limit, the chunks of a fenced code
\* block with their repeated fences included
C37_ChunksWithinLimit ==
    probe.fn = "split_formatted_text" =>
        \A k \in 1..Len(probe.out) : Len(probe.out[k]) <= probe.limit

(***************************************************************************)
(* TelegramAIAgent._safe_edit (src/src/bot.py:419-443) on its own: the     *)
(* status message of an exchange is edited a few times, each edit          *)
(* operation with the whole budget of rejected platform calls.             *)
(***************************************************************************)
\* most edit operations on one status message
MaxEdits == 2
\* the texts an edit operation is asked to show
EditTexts == {<<"a">>, <<"b">>}
ParseModes == {"MarkdownV2", "None"}

\* no edit operation yet
NoEdit == [fn |-> "none", text |-> <<>>, parse_mode |-> "None", from |-> 0,
           exc |-> "none", n |-> 0]

\* await self._safe_edit(status_message, text, parse_mode=parse_mode)
SafeEdit(ex, text, parse_mode) ==
    /\ bot[ex].pc = "streaming"
    /\ probe.n < MaxEdits
    /\ \E r \in _safe_edit([bot[ex] EXCEPT !.faults = 0], "edit", text, parse_mode) :
          /\ bot' = [bot EXCEPT ![ex] = r.b]
          /\ probe' = [fn |-> "_safe_edit", text |-> text, parse_mode |-> parse_mode,
                       from |-> Len(bot[ex].log), exc |-> r.exc, n |-> probe.n + 1]
    /\ UNCHANGED <<storeVars, clientVars, now>>

InitEdit ==
    /\ db = <<>>
    /\ store = <<>>
    /\ loaded = <<>>
    /\ lastOp = NoOp
    /\ recent = [u \in Users |-> <<>>]
    /\ held = [u \in Users |-> None]
    /\ written = [u \in Users |-> NoWrite]
    /\ _max_messages = max_messages
    /\ api_keys = 1
    /\ current_key_idx = 0
    /\ upstream = [k \in {0} |-> "ok"]
    /\ calls = [c \in Calls |-> IdleCall]
    /\ probe = NoEdit
    /\ bot = [ex \in Exchanges |-> IdleExchange]
    /\ now = 2 * UPDATE_INTERVAL

NextEdit ==
    \/ \E ex \in Exchanges, u \in {1}, content \in UserContents :
          NoOtherExchange(ex) /\ Receive(ex, u, content)
    \/ \E ex \in Exchanges : PostPlaceholder(ex)
    \/ \E ex \in Exchanges, text \in EditTexts, parse_mode \in ParseModes :
          SafeEdit(ex, text, parse_mode)

SpecEdit == InitEdit /\ [][NextEdit]_vars

(***************************************************************************)
(* Properties of the edit operation                                        *)
(***************************************************************************)
\* the platform calls of the latest edit operation, in order
EditCalls == SubSeq(bot[1].log, probe.from + 1, Len(bot[1].log))

\* C35: an edit the platform rejects as "message is not modified" is the last
\* platform call of its edit operation, which returns normally; and a
\* MarkdownV2 edit rejected with another BadRequest is followed by exactly one
\* more edit, of the same text without parse mode
C35_NotModifiedSwallowedOneRetry ==
    probe.fn = "_safe_edit" =>
        LET ev == EditCalls
        IN /\ \A k \in 1..Len(ev) :
                 ev[k].result = "NotModified" => (k = Len(ev) /\ probe.exc = "none")
           /\ (ev[1].parse_mode = "MarkdownV2" /\ ev[1].result = "BadRequest") =>
                 /\ Len(ev) = 2
                 /\ ev[2].call = "edit_text"
                 /\ ev[2].text = ev[1].text
                 /\ ev[2].parse_mode = "None"

(***************************************************************************)
(* Properties of the platform calls under rate limits                      *)
(***************************************************************************)
\* the exchange is over: on_message has returned or raised
Over(b) == b.pc \in {"done", "failed_send", "failed_ai", "crashed"}

\* C36: by the end of the exchange every send or edit the platform rejected
\* with RetryAfter has been issued again, with the same text and parse mode,
\* and applied
C36_RateLimitedCallRetried ==
    \A ex \in Exchanges :
        LET b == bot[ex]
        IN Over(b) =>
              \A k \in 1..Len(b.log) :
                 b.log[k].result = "RetryAfter" =>
                    \E j \in (k + 1)..Len(b.log) :
                       /\ b.log[j].call = b.log[k].call
                       /\ b.log[j].text = b.log[k].text
                       /\ b.log[j].parse_mode = b.log[k].parse_mode
                       /\ b.log[j].result = "ok"

(***************************************************************************)
(* Properties of the final answer                                          *)
(***************************************************************************)
\* the platform calls of lines 392-404 that took effect, as <<call, text>>
FinalCalls(b) ==
    LET made == SelectSeq(b.log, LAMBDA e : /\ e.what \in {"final", "notice", "part_label", "part"}
                                            /\ e.result \in {"ok", "NotModified"})
    IN [k \in 1..Len(made) |-> <<made[k].call, made[k].text>>]

\* what lines 392-404 are to do for the chunks from part idx on
RECURSIVE NumberedParts(_, _)
NumberedParts(chunks, idx) ==
    IF idx > Len(chunks) THEN <<>>
    ELSE << <<"reply_text", PartLabel(idx, Len(chunks))>>, <<"reply_text", chunks[idx]>> >>
         \o NumberedParts(chunks, idx + 1)

FinalPlan(chunks) ==
    IF Len(chunks) = 1 THEN << <<"edit_text", chunks[1]>> >>
    ELSE << <<"edit_text", NoticeText(Len(chunks))>> >> \o NumberedParts(chunks, 1)

\* C32: an exchange that has finished Finalizing has edited the status message
\* to the only chunk and sent no new message, or has edited it to the notice of
\* N parts and then sent, for each part 1..N in order, its number and the chunk;
\* chunks is what line 390 split the formatted final text into
C32_FinalAnswerInParts ==
    \A ex \in Exchanges :
        bot[ex].pc = "done" =>
            LET chunks == bot[ex].chunks
            IN /\ Len(chunks) >= 1
               /\ FinalCalls(bot[ex]) = FinalPlan(chunks)
               /\ bot[ex].display.text =
                     IF Len(chunks) = 1 THEN chunks[1] ELSE NoticeText(Len(chunks))

\* an exchange is done whose final answer went out in several parts
C32_Witness ==
    \E ex \in Exchanges :
        /\ bot[ex].pc = "done"
        /\ Len(FinalCalls(bot[ex])) >= 5

\* the stream of the exchange has ended and has delivered no fragment
EmptyStream(b) == b.chunk_count = 0 /\ Logged(b, "stream_end", "stream") # {}
\* the completion phrase as MarkdownV2 spells it: its "!" escaped
DoneTextEscaped == <<"G", "o", "t", "o", "v", "o", "\\", "!">>

\* C33: after a stream that ended without a fragment, the assistant turn the
\* exchange appends and the store holds is the completion phrase, and a finished
\* exchange has edited the status message, once, to that phrase in its MarkdownV2
\* spelling, which is what the message shows
C33_EmptyStreamSaysDone ==
    \A ex \in Exchanges :
        LET b == bot[ex]
        IN (EmptyStream(b) /\ b.pc \in {"finalizing", "done", "failed_send"}) =>
              /\ b.safe_reply = DoneText
              /\ Cardinality(Logged(b, "append", "assistant")) = 1
              /\ \A k \in Logged(b, "append", "assistant") : b.log[k].text = DoneText
              /\ Cardinality(TurnRows(b.user_id, "assistant")) = 1
              /\ \A k \in TurnRows(b.user_id, "assistant") :
                    db[k].content = EncodeContent(PyStr(DoneText))
              /\ b.pc = "done" =>
                    /\ format_message(DoneText) = DoneTextEscaped
                    /\ FinalCalls(b) = << <<"edit_text", DoneTextEscaped>> >>
                    /\ b.display.text = DoneTextEscaped

\* an exchange whose stream delivered nothing is done
C33_Witness ==
    \E ex \in Exchanges : EmptyStream(bot[ex]) /\ bot[ex].pc = "done"

(***************************************************************************)
(* One exchange whose answer starts with a heading mark: the text after    *)
(* "# " is cleaned and formatted to nothing (format_message removes the    *)
(* mark), so that a status update finds nothing to show.                   *)
(***************************************************************************)
StatusFragments ==
    { <<"#", " ">>,
      <<"a">>,
      Fence \o <<"\n", "y">> \o Fence }

NextStatus ==
    \/ \E ex \in Exchanges, u \in {1}, content \in UserContents :
          NoOtherExchange(ex) /\ Receive(ex, u, content)
    \/ \E ex \in Exchanges : PostPlaceholder(ex)
    \/ \E ex \in Exchanges, chunk \in StatusFragments, delay \in Delays : OnChunk(ex, chunk, delay)
    \/ \E ex \in Exchanges : StreamError(ex)
    \/ \E ex \in Exchanges : StreamExhausted(ex)
    \/ \E ex \in Exchanges : RecordReply(ex)
    \/ \E ex \in Exchanges : SendFinal(ex)

SpecStatus == InitBot /\ [][NextStatus]_vars

(***************************************************************************)
(* Properties of a status update that has nothing to show                  *)
(***************************************************************************)
\* the exchange b has taken one more fragment and is now c, and
\* _send_code_blocks has returned for it
FragmentTaken(b, c) ==
    /\ b.pc = "streaming"
    /\ c.chunk_count = b.chunk_count + 1
    /\ \A k \in Logged(c, "reply_text", "code") :
          (c.log[k].at = c.chunk_count /\ c.log[k].parse_mode = "MarkdownV2")
             => c.log[k].result \notin {"RetryAfter", "TimedOut"}
\* the status update for the newest fragment of c is due (bot.py:267-270)
Due(b, c) ==
    \/ c.chunk_count = 1
    \/ /\ c.current_time - b.last_update_time >= UPDATE_INTERVAL
       /\ Strip(c.accumulated_text, Whitespace) # <<>>
\* the calls of the record that edit the status message
Edits(b) == {k \in 1..Len(b.log) : b.log[k].call = "edit_text"}

\* C31: a due status update whose text without code blocks, cleaned and
\* formatted, is blank or a lone "-" issues no edit, leaves the text the status
\* message shows and the time of the last update as they were, returns no
\* pending flag, and the exchange goes on streaming
C31_BlankUpdateChangesNothing ==
    [][\A ex \in Exchanges :
          (/\ FragmentTaken(bot[ex], bot'[ex])
           /\ Due(bot[ex], bot'[ex])
           /\ ~Showable(bot'[ex].accumulated_text))
             => /\ Edits(bot'[ex]) = Edits(bot[ex])
                /\ bot'[ex].display = bot[ex].display
                /\ bot'[ex].last_update_time = bot[ex].last_update_time
                /\ ~bot'[ex].pending_update
                /\ bot'[ex].pc = "streaming"]_vars

\* two fragments have been taken, the update for each was due, and the text
\* without code blocks is not blank but formats to nothing: nothing was edited
C31_Witness ==
    \E ex \in Exchanges :
        /\ bot[ex].pc = "streaming"
        /\ bot[ex].chunk_count = 2
        /\ bot[ex].last_update_time = 0
        /\ Strip(TextWithoutCode(bot[ex].accumulated_text), Whitespace) # <<>>
        /\ ~Showable(bot[ex].accumulated_text)
        /\ Edits(bot[ex]) = {}

(***************************************************************************)
(* One exchange under a scheduler that keeps running it: the event loop    *)
(* resumes on_message whenever the call it awaits has returned or raised,  *)
(* and the stream, being finite, ends or fails after some fragments. A     *)
(* step of on_message that stays possible is taken.                        *)
(***************************************************************************)
\* on_message goes on: past the placeholder, out of the loop, through the
\* recording of the answer and the final calls
Proceed ==
    \/ \E ex \in Exchanges : PostPlaceholder(ex)
    \/ \E ex \in Exchanges : StreamError(ex)
    \/ \E ex \in Exchanges : StreamExhausted(ex)
    \/ \E ex \in Exchanges : RecordReply(ex)
    \/ \E ex \in Exchanges : SendFinal(ex)

SpecBotFair == InitBot /\ [][NextBot]_vars /\ WF_vars(Proceed)

(***************************************************************************)
(* Properties of termination                                               *)
(***************************************************************************)
\* C34: every exchange that has recorded its user turn reaches Done or Failed
\* (one of the two apologies shown)
C34_ReachesDoneOrFailed ==
    \A ex \in Exchanges :
        (bot[ex].pc = "recorded") ~> (bot[ex].pc \in {"done", "failed_send", "failed_ai"})
====
